---------------------------- MODULE Spec2Model ----------------------------
(***************************************************************************)
(* A model of inspequte's analysis pipeline: the rule engine and the       *)
(* analysis context (src/engine.rs), the baseline engine                   *)
(* (src/baseline.rs), the abstract stack machine                           *)
(* (src/dataflow/stack_machine.rs), the default opcode semantics           *)
(* (src/dataflow/opcode_semantics.rs), the classpath index                 *)
(* (src/classpath.rs) and the scan driver (src/main.rs).                   *)
(*                                                                         *)
(* Strings are modelled by their rank in the lexicographic order (the      *)
(* empty string has rank 0), so that Rust's String::cmp is integer         *)
(* comparison.  An Option<T> is the empty sequence (None) or a sequence of *)
(* one element (Some).                                                     *)
(***************************************************************************)
EXTENDS Integers, Sequences, FiniteSets, TLC

VARIABLES
    \* ---- Engine (src/engine.rs) ----
    rules,            \* Engine.rules: the registered rules, sorted by id
    pool_size,        \* number of threads of the rayon worker pool
    task,             \* per rule: "todo", "running", "done" or "skipped"
    rule_outputs,     \* per rule: Option<RuleOutput> produced by the closure
    saved_error,      \* rayon's saved_error: Option<index of the failing rule>
    finished,         \* the order in which the rule executions completed
    analyze_result,   \* what Engine::analyze returned
    \* ---- Baseline (src/baseline.rs) ----
    bl_file,          \* the baseline file on disk
    baseline,         \* Baseline.findings of the baseline in memory
    bl_captured,      \* the results Baseline::capture was called with
    bl_input,         \* the results Baseline::filter was called with
    bl_filtered,      \* what Baseline::filter returned
    bl_origin,        \* "capture" or "load": where the baseline in memory is from
    bl_pc,            \* "start", "ready", "none", "error" or "filtered"
    \* ---- Scan driver (src/main.rs) ----
    sc_input,         \* what the scan reads: the analysis of the inputs, the baseline file
    sc_run,           \* the number of the scan run in progress
    sc_pc,            \* the phase of run_scan that comes next
    sc_stats,         \* InvocationStats: the durations measured so far
    sc_results,       \* AnalysisOutput.results
    sc_loaded,        \* what load_baseline returned: "none", "some" or "error"
    sc_exit,          \* per run: "pending", "ok" or "err"
    sc_output,        \* per run: Option<the document written to the output>
    sc_error,         \* per run: what the run failed with, "" if nothing
    sc_scanned,       \* per run: scan_inputs was called
    sc_bytes,         \* per run: how much of the document reached the output
    \* ---- Stack machine (src/dataflow/stack_machine.rs) ----
    sm_config,        \* StackMachine.config
    sm_stack,         \* StackMachine.stack, bottom first
    sm_locals,        \* StackMachine.locals: a function from indices to values
    sm_last,          \* the last call: its name, its value, the caller's extra ids
    \* ---- Default opcode semantics (src/dataflow/opcode_semantics.rs) ----
    ap_last,          \* the last apply_default_semantics: its opcode, the operand
                      \* byte it read, and its ApplyOutcome
    \* ---- Classpath index (src/classpath.rs) ----
    cp_classes,       \* classes: the scanned class list
    cp_artifacts,     \* artifacts: the artifact table
    cp_allow,         \* allow_duplicate_classes
    cp_result,        \* what resolve_classpath returned
    \* ---- Analysis context (src/engine.rs) and a rule's run over it ----
    ac_artifacts,     \* the artifact table the context was built from
    ac_classes,       \* AnalysisContext.classes
    ac_run,           \* a rule's run: where it is, and the results it returned
    \* ---- Rule catalog (src/rules, Engine::new in src/engine.rs) ----
    cat_rules,        \* the rules collected so far: their metadata ids, in order
    cat_pc,           \* "start", "collected", "sorted" or "selected"
    \* ---- Local complexity guard (src/rules/codex_local_complexity_guard) ----
    cx_method,        \* the method under the rule: its access, instructions and handlers
    cx_result,        \* what method_local_complexity returned for it
    cx_outcome,       \* what the rule did with the method
    \* ---- Lock rule (src/rules/lock_not_released_on_exception_path) ----
    lk_method,        \* the method under the rule: the blocks and edges of its CFG
    lk_sites,         \* the lock sites the loop over lock_sites has still to take
    lk_site,          \* the lock site has_exit_path_without_unlock is exploring from
    lk_queue,         \* queue of has_exit_path_without_unlock
    lk_visited,       \* visited of has_exit_path_without_unlock
    lk_results,       \* class_results: the offsets of the lock sites reported
    lk_pc,            \* "start", "sites", "exploring" or "done"
    \* ---- Exception cause rule (src/rules/exception_cause_not_preserved) ----
    hx_method,        \* the method under the rule: blocks, edges, exception handlers
    hx_handlers,      \* the handler offsets the rule has still to analyze
    hx_handler_pc,    \* HandlerSemantics.handler_pc of the analysis in progress
    hx_queue,         \* the worklist: execution states, each with the origins of its ids
    hx_visited,       \* the visited set of the worklist
    hx_entered,       \* the states the worklist enqueued on entering a block, in order
    hx_findings,      \* the findings of the analysis in progress
    hx_results,       \* class_results: the (handler_pc, throw_offset) pairs reported
    hx_last,          \* the last turn of the worklist: the state it took, what it did
    hx_pc             \* "start", "handlers", "exploring" or "done"

engVars == <<rules, pool_size, task, rule_outputs, saved_error, finished,
             analyze_result>>

blVars == <<bl_file, baseline, bl_captured, bl_input, bl_filtered, bl_origin, bl_pc>>

scVars == <<sc_input, sc_run, sc_pc, sc_stats, sc_results, sc_loaded, sc_exit, sc_output,
            sc_error, sc_scanned, sc_bytes>>

smVars == <<sm_config, sm_stack, sm_locals, sm_last>>

apVars == <<ap_last>>

cpVars == <<cp_classes, cp_artifacts, cp_allow, cp_result>>

acVars == <<ac_artifacts, ac_classes, ac_run>>

catVars == <<cat_rules, cat_pc>>

cxVars == <<cx_method, cx_result, cx_outcome>>

lkVars == <<lk_method, lk_sites, lk_site, lk_queue, lk_visited, lk_results, lk_pc>>

hxVars == <<hx_method, hx_handlers, hx_handler_pc, hx_queue, hx_visited, hx_entered, hx_findings, hx_results, hx_last, hx_pc>>

vars == <<engVars, blVars, scVars, smVars, apVars, cpVars, acVars, catVars, cxVars, lkVars, hxVars>>

\* What the operations of one component leave alone: the other components.
engFrame == <<blVars, scVars, smVars, apVars, cpVars, acVars, catVars, cxVars, lkVars, hxVars>>
blFrame == <<engVars, scVars, smVars, apVars, cpVars, acVars, catVars, cxVars, lkVars, hxVars>>
scFrame == <<engVars, blVars, smVars, apVars, cpVars, acVars, catVars, cxVars, lkVars, hxVars>>
smFrame == <<engVars, blVars, scVars, apVars, cpVars, acVars, catVars, cxVars, lkVars, hxVars>>
apFrame == <<engVars, blVars, scVars, cpVars, acVars, catVars, cxVars, lkVars, hxVars>>
cpFrame == <<engVars, blVars, scVars, smVars, apVars, acVars, catVars, cxVars, lkVars, hxVars>>
acFrame == <<engVars, blVars, scVars, smVars, apVars, cpVars, catVars, cxVars, lkVars, hxVars>>
catFrame == <<engVars, blVars, scVars, smVars, apVars, cpVars, acVars, cxVars, lkVars, hxVars>>
cxFrame == <<engVars, blVars, scVars, smVars, apVars, cpVars, acVars, catVars, lkVars, hxVars>>
lkFrame == <<engVars, blVars, scVars, smVars, apVars, cpVars, acVars, catVars, cxVars, hxVars>>
hxFrame == <<engVars, blVars, scVars, smVars, apVars, cpVars, acVars, catVars, cxVars, lkVars>>

(***************************************************************************)
(* Generic helpers.                                                        *)
(***************************************************************************)
None == <<>>
Some(x) == <<x>>

\* Option<&str>::unwrap_or("") on a rank-coded string.
UnwrapOrEmpty(o) == IF o = None THEN 0 ELSE o[1]

Range(s) == {s[i] : i \in 1..Len(s)}

SeqsUpTo(S, n) == UNION {[1..k -> S] : k \in 0..n}

Min(S) == CHOOSE x \in S : \A y \in S : x <= y

\* Ord::cmp on tuples, Vecs and derived structs: lexicographic, a proper
\* prefix being less.
RECURSIVE LexLess(_, _)
LexLess(a, b) ==
    IF b = <<>> THEN FALSE
    ELSE IF a = <<>> THEN TRUE
    ELSE IF Head(a) # Head(b) THEN Head(a) < Head(b)
    ELSE LexLess(Tail(a), Tail(b))

\* slice::sort_by and slice::sort are stable sorts.  key[p] is the sort key of
\* s[p]: the element at position p ends up behind every element with a
\* smaller key and behind every element with an equal key that stood before
\* it.
StableSortByKey(s, key) ==
    LET n == Len(s)
        Before(q, p) == LexLess(key[q], key[p]) \/ (key[q] = key[p] /\ q < p)
        Rank(p) == Cardinality({q \in 1..n : Before(q, p)}) + 1
    IN  [k \in 1..n |-> s[CHOOSE p \in 1..n : Rank(p) = k]]

RECURSIVE Flatten(_)
Flatten(ss) == IF ss = <<>> THEN <<>> ELSE Head(ss) \o Flatten(Tail(ss))

(***************************************************************************)
(* Engine (src/engine.rs).                                                 *)
(***************************************************************************)
MaxRules == 2

\* Rule ids, by rank.  Nothing in Engine::new makes the ids of the catalog
\* distinct (two rule files of the catalog declare the same id), so a
\* catalog may repeat an id.
RuleIds == 1..MaxRules

\* A SARIF result as far as the engine reads it: rule_id and message.text
\* are Options; loc stands for the fields the engine never looks at.
Finding(id, msg, loc) == [rule_id |-> id, msg |-> msg, loc |-> loc]

\* What Rule::run may return on the shared context: an error, or a list of
\* results, with or without a rule_id of their own.
RunErr == [ok |-> FALSE, results |-> <<>>]
RunOk(rs) == [ok |-> TRUE, results |-> rs]

RuleRuns ==
    { RunErr,
      RunOk(<<>>),
      RunOk(<<Finding(None, Some(2), 1), Finding(None, Some(1), 1)>>),
      RunOk(<<Finding(None, Some(1), 2), Finding(None, Some(1), 1)>>),
      RunOk(<<Finding(Some(1), Some(1), 3)>>),
      RunOk(<<Finding(None, None, 1), Finding(Some(2), Some(0), 2)>>) }

Rule(id, run) == [id |-> id, run |-> run]

\* crate::rules::all_rules(): the catalog, in registration order.
Catalogs == UNION {[1..n -> [id : RuleIds, run : RuleRuns]] : n \in 1..MaxRules}

\* Engine::new: rules.sort_by(|a, b| a.metadata().id.cmp(b.metadata().id))
EngineNew(catalog) ==
    StableSortByKey(catalog, [i \in 1..Len(catalog) |-> <<catalog[i].id>>])

N == Len(rules)

\* The closure's stamping loop: a result without a rule_id gets the rule's.
StampResult(result, id) ==
    IF result.rule_id = None THEN [result EXCEPT !.rule_id = Some(id)] ELSE result

Stamp(results, id) == [i \in 1..Len(results) |-> StampResult(results[i], id)]

\* The RuleOutput a closure returns for an Ok run.
RuleOutput(rule) ==
    [id |-> rule.id, descriptor |-> rule.id, results |-> Stamp(rule.run.results, rule.id)]

\* A comparator that forgets the message text.
ResultKeyIdOnly(result) == <<UnwrapOrEmpty(result.rule_id)>>

\* The comparator of results.sort_by: left_id.cmp(right_id) and then
\* left_msg.cmp(right_msg), a missing id or text read as "".
ResultKey(result) == <<UnwrapOrEmpty(result.rule_id), UnwrapOrEmpty(result.msg)>>

\* A collect that takes the items as the workers deliver them.
CollectedAsFinished(outputs, order) == [k \in 1..Len(order) |-> outputs[order[k]][1]]

\* rayon's indexed collect into a Vec: the items in the order of the
\* iterator, whatever the order in which they were produced.
Collected(outputs, order) == [i \in 1..Len(outputs) |-> outputs[i][1]]

\* Lines 78-94: sort the rule outputs by id, split them into descriptors and
\* concatenated results, sort the results.
Assemble(collected) ==
    LET sorted == StableSortByKey(collected, [i \in 1..Len(collected) |-> <<collected[i].id>>])
        descs == [i \in 1..Len(sorted) |-> sorted[i].descriptor]
        results == Flatten([i \in 1..Len(sorted) |-> sorted[i].results])
    IN  [status |-> "ok", error |-> 0, rules |-> descs,
         results |-> StableSortByKey(results, [i \in 1..Len(results) |-> ResultKey(results[i])])]

Running == {i \in 1..N : task[i] = "running"}

EngInit ==
    /\ \E catalog \in Catalogs : rules = EngineNew(catalog)
    /\ pool_size \in {1, MaxRules}
    /\ task = [i \in 1..Len(rules) |-> "todo"]
    /\ rule_outputs = [i \in 1..Len(rules) |-> None]
    /\ saved_error = None
    /\ finished = <<>>
    /\ analyze_result = [status |-> "pending", error |-> 0, rules |-> <<>>, results |-> <<>>]

\* A worker takes a rule.  A pool of one thread runs the items in order.
StartRule(i) ==
    /\ analyze_result.status = "pending"
    /\ task[i] = "todo"
    /\ Cardinality(Running) < pool_size
    /\ pool_size = 1 => \A j \in 1..(i - 1) : task[j] # "todo"
    /\ task' = [task EXCEPT ![i] = "running"]
    /\ UNCHANGED <<rules, pool_size, rule_outputs, saved_error, finished, analyze_result, engFrame>>

\* The closure returns.  An Err is kept by rayon's collect only when no
\* error was saved before it.
FinishRule(i) ==
    /\ task[i] = "running"
    /\ task' = [task EXCEPT ![i] = "done"]
    /\ finished' = Append(finished, i)
    /\ IF rules[i].run.ok
       THEN /\ rule_outputs' = [rule_outputs EXCEPT ![i] = Some(RuleOutput(rules[i]))]
            /\ UNCHANGED saved_error
       ELSE /\ saved_error' = IF saved_error = None THEN Some(i) ELSE saved_error
            /\ UNCHANGED rule_outputs
    /\ UNCHANGED <<rules, pool_size, analyze_result, engFrame>>

\* Once an error is saved, rayon's while_some stops taking further items.
SkipRule(i) ==
    /\ analyze_result.status = "pending"
    /\ task[i] = "todo"
    /\ saved_error # None
    /\ task' = [task EXCEPT ![i] = "skipped"]
    /\ UNCHANGED <<rules, pool_size, rule_outputs, saved_error, finished, analyze_result, engFrame>>

\* The parallel iterator is exhausted: collect returns and analyze goes on.
Collect ==
    /\ analyze_result.status = "pending"
    /\ \A i \in 1..N : task[i] \in {"done", "skipped"}
    /\ analyze_result' =
         IF saved_error # None
         THEN [status |-> "err", error |-> saved_error[1], rules |-> <<>>, results |-> <<>>]
         ELSE Assemble(Collected(rule_outputs, finished))
    /\ UNCHANGED <<rules, pool_size, task, rule_outputs, saved_error, finished, engFrame>>

EngNext ==
    \/ \E i \in 1..N : StartRule(i)
    \/ \E i \in 1..N : FinishRule(i)
    \/ \E i \in 1..N : SkipRule(i)
    \/ Collect

EngIdle ==
    /\ rules = <<>>
    /\ pool_size = 1
    /\ task = <<>>
    /\ rule_outputs = <<>>
    /\ saved_error = None
    /\ finished = <<>>
    /\ analyze_result = [status |-> "pending", error |-> 0, rules |-> <<>>, results |-> <<>>]

(***************************************************************************)
(* Baseline (src/baseline.rs).                                             *)
(***************************************************************************)
MaxCaptured == 2
MaxFiltered == 2
MaxFileEntries == 2

\* A SARIF location as far as BaselineLocation::from reads it: the names of
\* its logical locations, the artifact uri and the region's start line.
Location(logicals, uri, start_line) ==
    [logicals |-> logicals, uri |-> uri, start_line |-> start_line]

LocA == Location(<<Some(1)>>, None, None)
LocB == Location(<<Some(1), Some(2)>>, None, None)
LocC == Location(<<>>, Some(1), Some(3))

\* The results the baseline is exercised with.  BaseR1 and BaseR2 differ in
\* the order of their locations and in a second logical location; BaseR4 and
\* BaseR5 differ in None against the empty string and the empty list.
BaseR1 == Finding(Some(1), Some(1), Some(<<LocA, LocC>>))
BaseR2 == Finding(Some(1), Some(1), Some(<<LocC, LocB>>))
BaseR3 == Finding(Some(2), Some(1), Some(<<LocA>>))
BaseR4 == Finding(None, None, None)
BaseR5 == Finding(Some(0), Some(0), Some(<<>>))
BaseR6 == Finding(Some(1), Some(2), Some(<<LocC>>))
BaselineResults == {BaseR1, BaseR2, BaseR3, BaseR4, BaseR5, BaseR6}

\* impl From<&Location> for BaselineLocation
BaselineLocationFrom(location) ==
    [logical |-> IF location.logicals = <<>> THEN None ELSE location.logicals[1],
     uri |-> location.uri,
     start_line |-> location.start_line]

\* Ord for Option<T>: None is less than every Some.
OptionKey(o) == IF o = None THEN 0 ELSE o[1] + 1

\* #[derive(Ord)] of BaselineLocation: logical, then uri, then start_line.
LocationKey(l) == <<OptionKey(l.logical), OptionKey(l.uri), OptionKey(l.start_line)>>

\* #[derive(Ord)] of BaselineEntry: rule_id, then message, then locations.
EntryKey(e) ==
    <<e.rule_id, e.message>> \o Flatten([i \in 1..Len(e.locations) |-> LocationKey(e.locations[i])])

\* A conversion that keeps the locations in the order of the result.
BaselineEntryFromUnsorted(result) ==
    [rule_id |-> UnwrapOrEmpty(result.rule_id),
     message |-> UnwrapOrEmpty(result.msg),
     locations |-> IF result.loc = None THEN <<>>
                   ELSE [i \in 1..Len(result.loc[1]) |-> BaselineLocationFrom(result.loc[1][i])]]

\* impl From<&SarifResult> for BaselineEntry
BaselineEntryFrom(result) ==
    LET locations == IF result.loc = None THEN <<>>
                     ELSE [i \in 1..Len(result.loc[1]) |-> BaselineLocationFrom(result.loc[1][i])]
    IN  [rule_id |-> UnwrapOrEmpty(result.rule_id),
         message |-> UnwrapOrEmpty(result.msg),
         locations |-> StableSortByKey(locations,
                           [i \in 1..Len(locations) |-> LocationKey(locations[i])])]

\* BTreeSet::into_iter: the elements in ascending order.
Ascending(S) ==
    [k \in 1..Cardinality(S) |->
        CHOOSE e \in S : Cardinality({f \in S : LexLess(EntryKey(f), EntryKey(e))}) = k - 1]

\* A capture that pushes the entries to a Vec, in the order of the results.
CaptureInOrder(results) == [i \in 1..Len(results) |-> BaselineEntryFrom(results[i])]

\* Baseline::capture
Capture(results) == Ascending({BaselineEntryFrom(results[i]) : i \in 1..Len(results)})

\* slice::binary_search: the loop of the standard library, on 1-based
\* positions; TRUE when it returns Ok.
RECURSIVE BinarySearchFrom(_, _, _, _)
BinarySearchFrom(findings, entry, base, size) ==
    IF size > 1
    THEN LET half == size \div 2
             mid == base + half
             greater == LexLess(EntryKey(entry), EntryKey(findings[mid]))
         IN  BinarySearchFrom(findings, entry, IF greater THEN base ELSE mid, size - half)
    ELSE findings[base] = entry

BinarySearchIsOk(findings, entry) ==
    IF Len(findings) = 0 THEN FALSE ELSE BinarySearchFrom(findings, entry, 1, Len(findings))

\* Baseline::filter
Filter(findings, results) ==
    SelectSeq(results, LAMBDA result : ~BinarySearchIsOk(findings, BaselineEntryFrom(result)))

\* Vec::dedup: of a run of equal neighbours the first one stays.
Dedup(s) == SelectSeq([i \in 1..Len(s) |-> <<i, s[i]>>],
                      LAMBDA p : p[1] = 1 \/ s[p[1] - 1] # p[2])

DedupEntries(s) == LET kept == Dedup(s) IN [i \in 1..Len(kept) |-> kept[i][2]]

\* The entries a baseline file may hold: those write_baseline writes, and
\* one whose locations stand in another order.
FileEntries ==
    {BaselineEntryFrom(r) : r \in BaselineResults} \cup {BaselineEntryFromUnsorted(BaseR1)}

BaselineFiles ==
    {[kind |-> "corrupt", findings |-> <<>>], [kind |-> "unreadable", findings |-> <<>>]}
        \cup {[kind |-> "valid", findings |-> f] : f \in SeqsUpTo(FileEntries, MaxFileEntries)}

BlInit ==
    /\ bl_file = [kind |-> "missing", findings |-> <<>>]
    /\ baseline = <<>>
    /\ bl_captured = <<>>
    /\ bl_input = <<>>
    /\ bl_filtered = <<>>
    /\ bl_origin = "none"
    /\ bl_pc = "start"

\* A baseline file is put at the baseline path (by a former run or by hand).
PutFile(file) ==
    /\ bl_pc = "start"
    /\ bl_file.kind = "missing"
    /\ bl_file' = file
    /\ UNCHANGED <<baseline, bl_captured, bl_input, bl_filtered, bl_origin, bl_pc, blFrame>>

\* Baseline::capture(results)
CaptureResults(results) ==
    /\ bl_pc = "start"
    /\ bl_file.kind = "missing"
    /\ bl_captured' = results
    /\ baseline' = Capture(results)
    /\ bl_origin' = "capture"
    /\ bl_pc' = "ready"
    /\ UNCHANGED <<bl_file, bl_input, bl_filtered, blFrame>>

\* A load_baseline for which a file that is not there is an error too.
load_baseline_strict(file) ==
    IF file.kind \in {"missing", "corrupt", "unreadable"}
    THEN [status |-> "error", findings |-> <<>>]
    ELSE [status |-> "some",
          findings |-> DedupEntries(StableSortByKey(file.findings,
                           [i \in 1..Len(file.findings) |-> EntryKey(file.findings[i])]))]

\* load_baseline(path): Ok(None), Err or Ok(Some(baseline))
load_baseline(file) ==
    CASE file.kind = "missing" -> [status |-> "none", findings |-> <<>>]
      [] file.kind \in {"corrupt", "unreadable"} -> [status |-> "error", findings |-> <<>>]
      [] OTHER ->
           [status |-> "some",
            findings |-> DedupEntries(StableSortByKey(file.findings,
                             [i \in 1..Len(file.findings) |-> EntryKey(file.findings[i])]))]

\* A call of load_baseline(path)
LoadBaseline ==
    /\ bl_pc = "start"
    /\ LET loaded == load_baseline(bl_file)
       IN  /\ bl_pc' = IF loaded.status = "some" THEN "ready" ELSE loaded.status
           /\ baseline' = loaded.findings
    /\ bl_origin' = "load"
    /\ UNCHANGED <<bl_file, bl_captured, bl_input, bl_filtered, blFrame>>

\* baseline.filter(results)
FilterResults(results) ==
    /\ bl_pc = "ready"
    /\ bl_input' = results
    /\ bl_filtered' = Filter(baseline, results)
    /\ bl_pc' = "filtered"
    /\ UNCHANGED <<bl_file, baseline, bl_captured, bl_origin, blFrame>>

BlNext ==
    \/ \E file \in BaselineFiles : PutFile(file)
    \/ \E results \in SeqsUpTo(BaselineResults, MaxCaptured) : CaptureResults(results)
    \/ LoadBaseline
    \/ \E results \in SeqsUpTo(BaselineResults, MaxFiltered) : FilterResults(results)

(***************************************************************************)
(* Scan driver (src/main.rs): run_scan, twice over the same inputs.        *)
(***************************************************************************)
MaxMs == 1
Runs == 1..2

\* What Instant::elapsed().as_millis() may return.
Durations == 0..MaxMs

\* std::env::args(): the same for both runs.
Arguments == <<1, 2>>

UnsortedEntry == BaselineEntryFromUnsorted(BaseR1)

Analysis(kind, artifacts, descriptors, results) ==
    [kind |-> kind, artifacts |-> artifacts, rules |-> descriptors, results |-> results]

\* What can go wrong in a run besides the scan, a rule and the baseline
\* file: in the expansion of --input and --classpath, in the expansion of
\* --rules, at the start of telemetry, in resolve_classpath, in the
\* validation of the document, and on opening and writing the output.
Faults ==
    {"input_not_found", "input_circular_file", "input_empty_file",
     "rules_circular_file", "rules_empty_file", "rules_not_found",
     "telemetry", "duplicate_classes", "validation",
     "open", "serialize", "newline"}

\* A rule id that no rule of the catalog has.
UnknownRuleId == MaxRules + 1

\* The inputs of a scan: scanning fails, a rule fails, or the engine returns
\* results (sorted by rule id and message); the baseline file; the rule ids
\* that --rules selects; and what else goes wrong.
ScanInputs ==
    [analysis : {Analysis("scan_err", <<>>, <<>>, <<>>),
                 Analysis("rule_err", <<1>>, <<>>, <<>>),
                 Analysis("ok", <<>>, <<>>, <<>>),
                 Analysis("ok", <<1>>, <<1>>, <<BaseR1, BaseR6>>),
                 Analysis("ok", <<1, 2>>, <<1, 2>>, <<BaseR2, BaseR3>>)},
     file : {[kind |-> "missing", findings |-> <<>>],
             [kind |-> "corrupt", findings |-> <<>>],
             [kind |-> "unreadable", findings |-> <<>>],
             [kind |-> "valid", findings |-> <<BaselineEntryFrom(BaseR1)>>],
             [kind |-> "valid", findings |-> <<BaselineEntryFrom(BaseR3), UnsortedEntry>>]},
     selected_rule_ids : {None},
     fault : {"none"}]
    \cup
    [analysis : {Analysis("scan_err", <<>>, <<>>, <<>>),
                 Analysis("ok", <<1>>, <<1>>, <<BaseR1, BaseR6>>)},
     file : {[kind |-> "missing", findings |-> <<>>]},
     selected_rule_ids : {Some({1}), Some({1, UnknownRuleId})},
     fault : {"none"}]
    \cup
    [analysis : {Analysis("ok", <<1>>, <<1>>, <<BaseR1, BaseR6>>)},
     file : {[kind |-> "missing", findings |-> <<>>]},
     selected_rule_ids : {None},
     fault : Faults]

NoStats == [scan_ms |-> 0, classpath_ms |-> 0, analysis_artifact_ms |-> 0, analysis_rules_ms |-> 0]

\* build_invocation
build_invocation(stats) ==
    [execution_successful |-> TRUE,
     arguments |-> Arguments,
     properties |-> [scan_ms |-> stats.scan_ms,
                     classpath_ms |-> stats.classpath_ms,
                     analysis_callgraph_ms |-> 0,
                     analysis_artifact_ms |-> stats.analysis_artifact_ms,
                     analysis_rules_ms |-> stats.analysis_rules_ms]]

\* build_sarif; the bytes that serde_json::to_writer writes are a function
\* of this document, one to one.
build_sarif(artifacts, invocation, descriptors, results) ==
    [version |-> "2.1.0",
     tool |-> [name |-> "inspequte",
               rules |-> IF descriptors = <<>> THEN None ELSE Some(descriptors)],
     invocations |-> <<invocation>>,
     results |-> results,
     artifacts |-> IF artifacts = <<>> THEN None ELSE Some(artifacts)]

\* Engine::new_with_allowed_rule_ids: an error when the allow-set names an
\* id that no registered rule has.
new_with_allowed_rule_ids(selected_rule_ids) ==
    IF selected_rule_ids # None /\ \E id \in selected_rule_ids[1] : id \notin RuleIds
    THEN "err"
    ELSE "ok"

\* main: the exit code of the process for what run returned.
ExitCode(result) == IF result = "ok" THEN 0 ELSE 1

ScInit ==
    /\ sc_input \in ScanInputs
    /\ sc_run = 1
    /\ sc_pc = "input_args"
    /\ sc_stats = NoStats
    /\ sc_results = <<>>
    /\ sc_loaded = "pending"
    /\ sc_exit = [r \in Runs |-> "pending"]
    /\ sc_output = [r \in Runs |-> None]
    /\ sc_error = [r \in Runs |-> ""]
    /\ sc_scanned = [r \in Runs |-> FALSE]
    /\ sc_bytes = [r \in Runs |-> "none"]

ScIdle ==
    /\ sc_input = [analysis |-> Analysis("ok", <<>>, <<>>, <<>>),
                   file |-> [kind |-> "missing", findings |-> <<>>],
                   selected_rule_ids |-> None,
                   fault |-> "none"]
    /\ sc_run = 1
    /\ sc_pc = "input_args"
    /\ sc_stats = NoStats
    /\ sc_results = <<>>
    /\ sc_loaded = "pending"
    /\ sc_exit = [r \in Runs |-> "pending"]
    /\ sc_output = [r \in Runs |-> None]
    /\ sc_error = [r \in Runs |-> ""]
    /\ sc_scanned = [r \in Runs |-> FALSE]
    /\ sc_bytes = [r \in Runs |-> "none"]

\* The `?` of run_scan: the run ends with that error.
Fail(error) ==
    /\ sc_exit' = [sc_exit EXCEPT ![sc_run] = "err"]
    /\ sc_error' = [sc_error EXCEPT ![sc_run] = error]
    /\ sc_pc' = "end"

\* run_scan: expand_input_args
InputArgsPhase ==
    /\ sc_pc = "input_args"
    /\ IF sc_input.fault \in {"input_not_found", "input_circular_file", "input_empty_file"}
       THEN Fail(sc_input.fault)
       ELSE sc_pc' = "rule_args" /\ UNCHANGED <<sc_exit, sc_error>>
    /\ UNCHANGED <<sc_input, sc_run, sc_stats, sc_results, sc_loaded, sc_output,
                   sc_scanned, sc_bytes, scFrame>>

\* run_scan: expand_rule_args
RuleArgsPhase ==
    /\ sc_pc = "rule_args"
    /\ IF sc_input.fault \in {"rules_circular_file", "rules_empty_file", "rules_not_found"}
       THEN Fail(sc_input.fault)
       ELSE sc_pc' = "telemetry" /\ UNCHANGED <<sc_exit, sc_error>>
    /\ UNCHANGED <<sc_input, sc_run, sc_stats, sc_results, sc_loaded, sc_output,
                   sc_scanned, sc_bytes, scFrame>>

\* run_scan: Telemetry::new
TelemetryPhase ==
    /\ sc_pc = "telemetry"
    /\ IF sc_input.fault = "telemetry"
       THEN Fail("telemetry")
       ELSE sc_pc' = "scan" /\ UNCHANGED <<sc_exit, sc_error>>
    /\ UNCHANGED <<sc_input, sc_run, sc_stats, sc_results, sc_loaded, sc_output,
                   sc_scanned, sc_bytes, scFrame>>

\* analyze: scan_inputs and its duration
ScanPhase(ms) ==
    /\ sc_pc = "scan"
    /\ sc_scanned' = [sc_scanned EXCEPT ![sc_run] = TRUE]
    /\ IF sc_input.analysis.kind = "scan_err"
       THEN Fail("scan") /\ UNCHANGED sc_stats
       ELSE /\ sc_stats' = [sc_stats EXCEPT !.scan_ms = ms]
            /\ sc_pc' = "classpath"
            /\ UNCHANGED <<sc_exit, sc_error>>
    /\ UNCHANGED <<sc_input, sc_run, sc_results, sc_loaded, sc_output, sc_bytes, scFrame>>

\* analyze: resolve_classpath and its duration
ClasspathPhase(ms) ==
    /\ sc_pc = "classpath"
    /\ IF sc_input.fault = "duplicate_classes"
       THEN Fail("duplicate_classes") /\ UNCHANGED sc_stats
       ELSE /\ sc_stats' = [sc_stats EXCEPT !.classpath_ms = ms]
            /\ sc_pc' = "context"
            /\ UNCHANGED <<sc_exit, sc_error>>
    /\ UNCHANGED <<sc_input, sc_run, sc_results, sc_loaded, sc_output, sc_scanned,
                   sc_bytes, scFrame>>

\* analyze: build_context_with_timings
ContextPhase(ms) ==
    /\ sc_pc = "context"
    /\ sc_stats' = [sc_stats EXCEPT !.analysis_artifact_ms = ms]
    /\ sc_pc' = "engine"
    /\ UNCHANGED <<sc_input, sc_run, sc_results, sc_loaded, sc_exit, sc_output, sc_error,
                   sc_scanned, sc_bytes, scFrame>>

\* analyze: Engine::new_with_allowed_rule_ids(selected_rule_ids)?
EnginePhase ==
    /\ sc_pc = "engine"
    /\ IF new_with_allowed_rule_ids(sc_input.selected_rule_ids) = "err"
       THEN Fail("unknown_rule")
       ELSE sc_pc' = "rules" /\ UNCHANGED <<sc_exit, sc_error>>
    /\ UNCHANGED <<sc_input, sc_run, sc_stats, sc_results, sc_loaded, sc_output,
                   sc_scanned, sc_bytes, scFrame>>

\* analyze: Engine::analyze and its duration
RulesPhase(ms) ==
    /\ sc_pc = "rules"
    /\ IF sc_input.analysis.kind = "rule_err"
       THEN Fail("rule") /\ UNCHANGED <<sc_stats, sc_results>>
       ELSE /\ sc_stats' = [sc_stats EXCEPT !.analysis_rules_ms = ms]
            /\ sc_results' = sc_input.analysis.results
            /\ sc_pc' = "baseline"
            /\ UNCHANGED <<sc_exit, sc_error>>
    /\ UNCHANGED <<sc_input, sc_run, sc_loaded, sc_output, sc_scanned, sc_bytes, scFrame>>

\* run_scan: the baseline phase
BaselinePhase ==
    /\ sc_pc = "baseline"
    /\ LET loaded == load_baseline(sc_input.file)
       IN  /\ sc_loaded' = loaded.status
           /\ CASE loaded.status = "error" -> Fail("baseline") /\ UNCHANGED sc_results
                [] loaded.status = "some" ->
                     /\ sc_results' = Filter(loaded.findings, sc_results)
                     /\ sc_pc' = "sarif"
                     /\ UNCHANGED <<sc_exit, sc_error>>
                [] OTHER -> sc_pc' = "sarif" /\ UNCHANGED <<sc_results, sc_exit, sc_error>>
    /\ UNCHANGED <<sc_input, sc_run, sc_stats, sc_output, sc_scanned, sc_bytes, scFrame>>

\* run_scan: the sarif phase.  The document is built and, when asked for,
\* validated; output_writer opens the destination; serde_json::to_writer
\* writes the document to it piece by piece; write_all writes the newline.
\* sc_output is the document whose bytes went out, sc_bytes how far the
\* writing got: "none", "partial", "document" (all but the newline) or
\* "complete".
SarifPhase ==
    /\ sc_pc = "sarif"
    /\ LET sarif == build_sarif(sc_input.analysis.artifacts, build_invocation(sc_stats),
                                sc_input.analysis.rules, sc_results)
       IN  CASE sc_input.fault \in {"validation", "open"} ->
                  Fail(sc_input.fault) /\ UNCHANGED <<sc_output, sc_bytes>>
             [] sc_input.fault = "serialize" ->
                  /\ Fail("serialize")
                  /\ sc_output' = [sc_output EXCEPT ![sc_run] = Some(sarif)]
                  /\ sc_bytes' \in {[sc_bytes EXCEPT ![sc_run] = written] :
                                       written \in {"none", "partial"}}
             [] sc_input.fault = "newline" ->
                  /\ Fail("newline")
                  /\ sc_output' = [sc_output EXCEPT ![sc_run] = Some(sarif)]
                  /\ sc_bytes' = [sc_bytes EXCEPT ![sc_run] = "document"]
             [] OTHER ->
                  /\ sc_output' = [sc_output EXCEPT ![sc_run] = Some(sarif)]
                  /\ sc_bytes' = [sc_bytes EXCEPT ![sc_run] = "complete"]
                  /\ sc_exit' = [sc_exit EXCEPT ![sc_run] = "ok"]
                  /\ sc_pc' = "end"
                  /\ UNCHANGED sc_error
    /\ UNCHANGED <<sc_input, sc_run, sc_stats, sc_results, sc_loaded, sc_scanned, scFrame>>

\* The same command is run again.
RunAgain ==
    /\ sc_pc = "end"
    /\ sc_run = 1
    /\ sc_run' = 2
    /\ sc_pc' = "input_args"
    /\ sc_stats' = NoStats
    /\ sc_results' = <<>>
    /\ sc_loaded' = "pending"
    /\ UNCHANGED <<sc_input, sc_exit, sc_output, sc_error, sc_scanned, sc_bytes, scFrame>>

ScNext ==
    \/ InputArgsPhase
    \/ RuleArgsPhase
    \/ TelemetryPhase
    \/ \E ms \in Durations : ScanPhase(ms)
    \/ \E ms \in Durations : ClasspathPhase(ms)
    \/ \E ms \in Durations : ContextPhase(ms)
    \/ EnginePhase
    \/ \E ms \in Durations : RulesPhase(ms)
    \/ BaselinePhase
    \/ SarifPhase
    \/ RunAgain

(***************************************************************************)
(* Stack machine (src/dataflow/stack_machine.rs), with the value type of   *)
(* its tests: Unknown (the default value) and Symbol(id).                  *)
(***************************************************************************)
MaxDepth == 2
MaxId == 2
MaxLocals == 1

\* Without a depth cap the stack is followed up to this length.
MaxStack == MaxDepth

SymbolIds == 0..MaxId
Unknown == [tag |-> "Unknown", id |-> 0]
Symbol(id) == [tag |-> "Symbol", id |-> id]
Values == {Unknown} \cup {Symbol(id) : id \in SymbolIds}
default_value == Unknown

\* One index under the cap on locals and the first one over it.
LocalIndices == {0, MaxLocals}

\* extract: |value| match value { Symbol(id) => Some(*id), _ => None }
extract(value) == IF value.tag = "Symbol" THEN Some(value.id) ELSE None

StackMachineConfigs ==
    [max_stack_depth : {None} \cup {Some(d) : d \in 0..MaxDepth},
     max_locals : {None, Some(MaxLocals)},
     max_symbolic_identities : {None}]

\* A push that makes room at the top of the stack.
push_drop_top(stack, config, value) ==
    IF config.max_stack_depth # None /\ Len(stack) >= config.max_stack_depth[1]
    THEN IF stack = <<>>
         THEN [panic |-> TRUE, stack |-> stack]
         ELSE [panic |-> FALSE, stack |-> Append(SubSeq(stack, 1, Len(stack) - 1), value)]
    ELSE [panic |-> FALSE, stack |-> Append(stack, value)]

\* StackMachine::push; Vec::remove(0) panics on an empty vector.
push(stack, config, value) ==
    IF config.max_stack_depth # None /\ Len(stack) >= config.max_stack_depth[1]
    THEN IF stack = <<>>
         THEN [panic |-> TRUE, stack |-> stack]
         ELSE [panic |-> FALSE, stack |-> Append(Tail(stack), value)]
    ELSE [panic |-> FALSE, stack |-> Append(stack, value)]

\* StackMachine::pop
pop(stack) ==
    IF stack = <<>>
    THEN [stack |-> stack, value |-> default_value]
    ELSE [stack |-> SubSeq(stack, 1, Len(stack) - 1), value |-> stack[Len(stack)]]

\* StackMachine::pop_n
RECURSIVE pop_n(_, _)
pop_n(stack, count) == IF count = 0 THEN stack ELSE pop_n(pop(stack).stack, count - 1)

\* A budget that lets the index equal to max_locals through.
is_local_above_budget(config, index) ==
    config.max_locals # None /\ index > config.max_locals[1]

\* StackMachine::is_local_out_of_budget
is_local_out_of_budget(config, index) ==
    config.max_locals # None /\ index >= config.max_locals[1]

\* StackMachine::load_local
load_local(locals, config, index) ==
    IF is_local_out_of_budget(config, index) THEN default_value
    ELSE IF index \in DOMAIN locals THEN locals[index] ELSE default_value

\* StackMachine::store_local
store_local(locals, config, index, value) ==
    IF is_local_out_of_budget(config, index) THEN locals
    ELSE [i \in DOMAIN locals \cup {index} |-> IF i = index THEN value ELSE locals[i]]

\* The elements of a set of numbers in ascending order (BTreeMap, BTreeSet).
AscendingIds(S) ==
    [k \in 1..Cardinality(S) |-> CHOOSE x \in S : Cardinality({y \in S : y < x}) = k - 1]

\* A walk that takes the locals before the stack.
EncounteredIdsLocalsFirst(stack, locals, extra_ids) ==
    LET indices == AscendingIds(DOMAIN locals)
        local_values == [k \in 1..Len(indices) |-> locals[indices[k]]]
        values == local_values \o stack
    IN  Flatten([k \in 1..Len(values) |-> extract(values[k])]) \o AscendingIds(extra_ids)

\* The ids that the three loops of canonicalize_symbolic_ids_u32 meet, in
\* their order: the stack from the bottom, the locals by index, the extra ids.
EncounteredIds(stack, locals, extra_ids) ==
    LET indices == AscendingIds(DOMAIN locals)
        local_values == [k \in 1..Len(indices) |-> locals[indices[k]]]
        values == stack \o local_values
    IN  Flatten([k \in 1..Len(values) |-> extract(values[k])]) \o AscendingIds(extra_ids)

\* mapping.entry(id).or_insert_with(|| next_id++), for each id in turn.
RECURSIVE AssignIds(_, _)
AssignIds(ids, mapping) ==
    IF ids = <<>> THEN mapping
    ELSE IF Head(ids) \in DOMAIN mapping
         THEN AssignIds(Tail(ids), mapping)
         ELSE AssignIds(Tail(ids),
                  [id \in DOMAIN mapping \cup {Head(ids)} |->
                      IF id = Head(ids) THEN Cardinality(DOMAIN mapping) ELSE mapping[id]])

\* assign: |value, mapped| *value = Symbol(mapped)
Reassign(value, mapping) ==
    IF extract(value) # None /\ extract(value)[1] \in DOMAIN mapping
    THEN Symbol(mapping[extract(value)[1]])
    ELSE value

\* A canonicalization that rewrites the stack and leaves the locals.
canonicalize_stack_only(stack, locals, extra_ids) ==
    LET mapping == AssignIds(EncounteredIds(stack, locals, extra_ids), <<>>)
    IN  [mapping |-> mapping,
         stack |-> [k \in 1..Len(stack) |-> Reassign(stack[k], mapping)],
         locals |-> locals]

\* StackMachine::canonicalize_symbolic_ids_u32
canonicalize_symbolic_ids_u32(stack, locals, extra_ids) ==
    LET mapping == AssignIds(EncounteredIds(stack, locals, extra_ids), <<>>)
    IN  [mapping |-> mapping,
         stack |-> [k \in 1..Len(stack) |-> Reassign(stack[k], mapping)],
         locals |-> [i \in DOMAIN locals |-> Reassign(locals[i], mapping)]]

\* The extra ids a caller holds: up to two allocations.
ExtraIdSets == {S \in SUBSET SymbolIds : Cardinality(S) <= 2}

Last(op, value, extra) == [op |-> op, value |-> value, extra |-> extra]

\* The last call: its name, the value it took or returned, and the ids it
\* returned or, for load_local and store_local, the index it took.
LastIndex == CHOOSE index \in sm_last.extra : TRUE

\* StackMachine::with_config
SmInit ==
    /\ sm_config \in StackMachineConfigs
    /\ sm_stack = <<>>
    /\ sm_locals = <<>>
    /\ sm_last = Last("with_config", default_value, {})

SmIdle ==
    /\ sm_config = [max_stack_depth |-> None, max_locals |-> None,
                    max_symbolic_identities |-> None]
    /\ sm_stack = <<>>
    /\ sm_locals = <<>>
    /\ sm_last = Last("with_config", default_value, {})

Alive == sm_last.op # "panic"

\* No rule has run, over a context without classes.
AcIdle ==
    /\ ac_artifacts = <<>>
    /\ ac_classes = <<>>
    /\ ac_run = [pc |-> "idle", rule |-> "", results |-> <<>>]

\* No resolve_classpath yet, over an empty class list.
CpIdle ==
    /\ cp_classes = <<>>
    /\ cp_artifacts = <<>>
    /\ cp_allow = FALSE
    /\ cp_result = [ok |-> FALSE, classes |-> <<>>, duplicates |-> <<>>, warnings |-> <<>>]

\* No rule has been collected from the catalog.
CatIdle ==
    /\ cat_rules = <<>>
    /\ cat_pc = "start"

\* The local complexity guard has looked at no method.
CxIdle ==
    /\ cx_method = [access |-> "plain", instructions |-> <<>>, exception_handlers |-> <<>>]
    /\ cx_result = [status |-> "none", value |-> 0]
    /\ cx_outcome = "pending"

\* The lock rule has looked at no method.
LkIdle ==
    /\ lk_method = [blocks |-> <<>>, edges |-> {}]
    /\ lk_sites = <<>>
    /\ lk_site = <<>>
    /\ lk_queue = <<>>
    /\ lk_visited = {}
    /\ lk_results = <<>>
    /\ lk_pc = "start"

\* The exception cause rule has looked at no method.
HxIdle ==
    /\ hx_method = [blocks |-> <<>>, edges |-> {}, exception_handlers |-> <<>>]
    /\ hx_handlers = <<>>
    /\ hx_handler_pc = <<>>
    /\ hx_queue = <<>>
    /\ hx_visited = {}
    /\ hx_entered = <<>>
    /\ hx_findings = <<>>
    /\ hx_results = <<>>
    /\ hx_last = [turn |-> "none", block_start |-> 0, opcode |-> "", offset |-> 0, turns |-> 0]
    /\ hx_pc = "start"

\* No apply_default_semantics yet.
ApIdle == ap_last = [opcode |-> "", operand |-> <<>>, outcome |-> ""]

\* machine.push(value)
Push(value) ==
    /\ Alive
    /\ sm_config.max_stack_depth = None => Len(sm_stack) < MaxStack
    /\ LET pushed == push(sm_stack, sm_config, value)
       IN  /\ sm_stack' = pushed.stack
           /\ sm_last' = Last(IF pushed.panic THEN "panic" ELSE "push", value, {})
    /\ UNCHANGED <<sm_config, sm_locals, smFrame>>

\* machine.pop()
Pop ==
    /\ Alive
    /\ sm_stack' = pop(sm_stack).stack
    /\ sm_last' = Last("pop", pop(sm_stack).value, {})
    /\ UNCHANGED <<sm_config, sm_locals, smFrame>>

\* machine.pop_n(count)
PopN(count) ==
    /\ Alive
    /\ sm_stack' = pop_n(sm_stack, count)
    /\ sm_last' = Last("pop_n", default_value, {})
    /\ UNCHANGED <<sm_config, sm_locals, smFrame>>

\* machine.load_local(index)
LoadLocal(index) ==
    /\ Alive
    /\ sm_last' = Last("load_local", load_local(sm_locals, sm_config, index), {index})
    /\ UNCHANGED <<sm_config, sm_stack, sm_locals, smFrame>>

\* machine.store_local(index, value)
StoreLocal(index, value) ==
    /\ Alive
    /\ sm_locals' = store_local(sm_locals, sm_config, index, value)
    /\ sm_last' = Last("store_local", value, {index})
    /\ UNCHANGED <<sm_config, sm_stack, smFrame>>

\* canonicalize_state of a caller that holds extra_ids: the canonicalization
\* of the machine, then the extra ids mapped through the returned mapping.
Canonicalize(extra_ids) ==
    /\ Alive
    /\ LET done == canonicalize_symbolic_ids_u32(sm_stack, sm_locals, extra_ids)
       IN  /\ sm_stack' = done.stack
           /\ sm_locals' = done.locals
           /\ sm_last' = Last("canonicalize", default_value,
                               {done.mapping[id] : id \in extra_ids \cap DOMAIN done.mapping})
    /\ UNCHANGED <<sm_config, smFrame>>

SmNext ==
    \/ \E value \in Values : Push(value)
    \/ Pop
    \/ \E count \in {2, MaxStack + 1} : PopN(count)
    \/ \E index \in LocalIndices : LoadLocal(index)
    \/ \E index \in LocalIndices, value \in Values : StoreLocal(index, value)
    \/ \E extra_ids \in ExtraIdSets : Canonicalize(extra_ids)

(***************************************************************************)
(* Stack machine with a cap on the symbolic identities.                    *)
(***************************************************************************)
MaxIdentities == 1

\* The ids that the stack and the locals carry.
LiveIds(stack, locals) ==
    {stack[k].id : k \in {j \in 1..Len(stack) : extract(stack[j]) # None}}
        \cup {locals[i].id : i \in {j \in DOMAIN locals : extract(locals[j]) # None}}

\* set_unknown: |value| *value = Unknown
SetUnknown(value, tracked_ids) ==
    IF extract(value) # None /\ extract(value)[1] \notin tracked_ids THEN Unknown ELSE value

\* A cap that keeps the ids met first in ascending order: the smallest.
enforce_cap_keeping_least(stack, locals, config) ==
    IF config.max_symbolic_identities = None
    THEN [tracked |-> None, stack |-> stack, locals |-> locals]
    ELSE LET max == config.max_symbolic_identities[1]
             live_ids == LiveIds(stack, locals)
             tracked_ids == {id \in live_ids : Cardinality({x \in live_ids : x < id}) < max}
         IN  [tracked |-> Some(tracked_ids),
              stack |-> [k \in 1..Len(stack) |-> SetUnknown(stack[k], tracked_ids)],
              locals |-> [i \in DOMAIN locals |-> SetUnknown(locals[i], tracked_ids)]]

\* StackMachine::enforce_symbolic_identity_cap_u32:
\* live_ids.iter().rev().take(max) are the max greatest live ids.
enforce_symbolic_identity_cap_u32(stack, locals, config) ==
    IF config.max_symbolic_identities = None
    THEN [tracked |-> None, stack |-> stack, locals |-> locals]
    ELSE LET max == config.max_symbolic_identities[1]
             live_ids == LiveIds(stack, locals)
             tracked_ids == {id \in live_ids : Cardinality({x \in live_ids : x > id}) < max}
         IN  [tracked |-> Some(tracked_ids),
              stack |-> [k \in 1..Len(stack) |-> SetUnknown(stack[k], tracked_ids)],
              locals |-> [i \in DOMAIN locals |-> SetUnknown(locals[i], tracked_ids)]]

\* machine.enforce_symbolic_identity_cap_u32(extract, set_unknown); the ids
\* it returned are kept in sm_last, none when it returned None.
EnforceCap ==
    /\ Alive
    /\ LET done == enforce_symbolic_identity_cap_u32(sm_stack, sm_locals, sm_config)
       IN  /\ sm_stack' = done.stack
           /\ sm_locals' = done.locals
           /\ sm_last' = Last("enforce_symbolic_identity_cap_u32", default_value,
                               IF done.tracked = None THEN {} ELSE done.tracked[1])
    /\ UNCHANGED <<sm_config, smFrame>>

\* Machines with and without a cap on the identities; their stack is kept
\* short by a depth cap.
IdentityCapConfigs ==
    [max_stack_depth : {Some(MaxDepth - 1)},
     max_locals : {None},
     max_symbolic_identities : {None} \cup {Some(m) : m \in 0..MaxIdentities}]

SmIdentityCapInit ==
    /\ sm_config \in IdentityCapConfigs
    /\ sm_stack = <<>>
    /\ sm_locals = <<>>
    /\ sm_last = Last("with_config", default_value, {})

SmIdentityCapNext ==
    \/ SmNext
    \/ EnforceCap

InitIdentityCap == SmIdentityCapInit /\ EngIdle /\ BlInit /\ ScIdle /\ ApIdle /\ CpIdle /\ AcIdle /\ CatIdle /\ CxIdle /\ LkIdle /\ HxIdle

SpecIdentityCap == InitIdentityCap /\ [][SmIdentityCapNext]_vars

(***************************************************************************)
(* Stack machine with a cap on the locals: every index over the cap, one   *)
(* under it and one at it, or both indices under it.                       *)
(***************************************************************************)
LocalsCapConfigs ==
    [max_stack_depth : {Some(MaxDepth - 1)},
     max_locals : {Some(0), Some(MaxLocals), Some(MaxLocals + 1)},
     max_symbolic_identities : {None}]

SmLocalsCapInit ==
    /\ sm_config \in LocalsCapConfigs
    /\ sm_stack = <<>>
    /\ sm_locals = <<>>
    /\ sm_last = Last("with_config", default_value, {})

InitLocalsCap == SmLocalsCapInit /\ EngIdle /\ BlInit /\ ScIdle /\ ApIdle /\ CpIdle /\ AcIdle /\ CatIdle /\ CxIdle /\ LkIdle /\ HxIdle

SpecLocalsCap == InitLocalsCap /\ [][SmNext]_vars

(***************************************************************************)
(* Default opcode semantics (src/dataflow/opcode_semantics.rs).            *)
(*                                                                         *)
(* An opcode is written by the name crate::opcodes gives it; "UNASSIGNED"  *)
(* stands for the bytes that are no instruction of the Java virtual        *)
(* machine.                                                                *)
(***************************************************************************)
Opcodes ==
    {"NOP", "ACONST_NULL", "ICONST_M1", "ICONST_0", "ICONST_1", "ICONST_2",
     "ICONST_3", "ICONST_4", "ICONST_5", "LCONST_0", "LCONST_1", "FCONST_0",
     "FCONST_1", "FCONST_2", "DCONST_0", "DCONST_1", "BIPUSH", "SIPUSH",
     "LDC", "LDC_W", "LDC2_W", "ILOAD", "LLOAD", "FLOAD", "DLOAD", "ALOAD",
     "ILOAD_0", "ILOAD_1", "ILOAD_2", "ILOAD_3", "LLOAD_0", "LLOAD_1",
     "LLOAD_2", "LLOAD_3", "FLOAD_0", "FLOAD_1", "FLOAD_2", "FLOAD_3",
     "DLOAD_0", "DLOAD_1", "DLOAD_2", "DLOAD_3", "ALOAD_0", "ALOAD_1",
     "ALOAD_2", "ALOAD_3", "IALOAD", "LALOAD", "FALOAD", "DALOAD", "AALOAD",
     "BALOAD", "CALOAD", "SALOAD", "ISTORE", "LSTORE", "FSTORE", "DSTORE",
     "ASTORE", "ISTORE_0", "ISTORE_1", "ISTORE_2", "ISTORE_3", "LSTORE_0",
     "LSTORE_1", "LSTORE_2", "LSTORE_3", "FSTORE_0", "FSTORE_1", "FSTORE_2",
     "FSTORE_3", "DSTORE_0", "DSTORE_1", "DSTORE_2", "DSTORE_3", "ASTORE_0",
     "ASTORE_1", "ASTORE_2", "ASTORE_3", "IASTORE", "LASTORE", "FASTORE",
     "DASTORE", "AASTORE", "BASTORE", "CASTORE", "SASTORE", "POP", "POP2",
     "DUP", "DUP_X1", "DUP_X2", "DUP2", "DUP2_X1", "DUP2_X2", "SWAP", "IADD",
     "LADD", "FADD", "DADD", "ISUB", "LSUB", "FSUB", "DSUB", "IMUL", "LMUL",
     "FMUL", "DMUL", "IDIV", "LDIV", "FDIV", "DDIV", "IREM", "LREM", "FREM",
     "DREM", "INEG", "LNEG", "FNEG", "DNEG", "ISHL", "LSHL", "ISHR", "LSHR",
     "IUSHR", "LUSHR", "IAND", "LAND", "IOR", "LOR", "IXOR", "LXOR", "IINC",
     "I2L", "I2F", "I2D", "L2I", "L2F", "L2D", "F2I", "F2L", "F2D", "D2I",
     "D2L", "D2F", "I2B", "I2C", "I2S", "LCMP", "FCMPL", "FCMPG", "DCMPL",
     "DCMPG", "IFEQ", "IFNE", "IFLT", "IFGE", "IFGT", "IFLE", "IF_ICMPEQ",
     "IF_ICMPNE", "IF_ICMPLT", "IF_ICMPGE", "IF_ICMPGT", "IF_ICMPLE",
     "IF_ACMPEQ", "IF_ACMPNE", "GOTO", "JSR", "RET", "TABLESWITCH",
     "LOOKUPSWITCH", "IRETURN", "LRETURN", "FRETURN", "DRETURN", "ARETURN",
     "RETURN", "GETSTATIC", "PUTSTATIC", "GETFIELD", "PUTFIELD",
     "INVOKEVIRTUAL", "INVOKESPECIAL", "INVOKESTATIC", "INVOKEINTERFACE",
     "INVOKEDYNAMIC", "NEW", "NEWARRAY", "ANEWARRAY", "ARRAYLENGTH",
     "ATHROW", "CHECKCAST", "INSTANCEOF", "MONITORENTER", "MONITOREXIT",
     "WIDE", "MULTIANEWARRAY", "IFNULL", "IFNONNULL", "GOTO_W", "JSR_W",
     "UNASSIGNED"}

\* The rule's ValueDomain.
unknown_value == Unknown
scalar_value == Symbol(0)

\* Option<Effect>: the kind of the effect ("None" for no effect), the kind
\* of its LocalSlot if it has one, and the slot or count it carries.
Effect(kind, slot, n) == [kind |-> kind, slot |-> slot, n |-> n]

\* decode: the effect of the opcode, NoEffect for None.
decode(opcode) ==
    CASE opcode = "ACONST_NULL" -> Effect("PushUnknown", "", 0)
      [] opcode \in {"ICONST_M1", "ICONST_0", "ICONST_1", "ICONST_2", "ICONST_3",
                     "ICONST_4", "ICONST_5", "BIPUSH", "SIPUSH", "ILOAD", "ILOAD_0",
                     "ILOAD_1", "ILOAD_2", "ILOAD_3", "NEW", "LDC", "LDC_W",
                     "LDC2_W"} -> Effect("PushScalar", "", 0)
      [] opcode = "ALOAD" -> Effect("LoadLocal", "OperandU8", 0)
      [] opcode = "ALOAD_0" -> Effect("LoadLocal", "Fixed", 0)
      [] opcode = "ALOAD_1" -> Effect("LoadLocal", "Fixed", 1)
      [] opcode = "ALOAD_2" -> Effect("LoadLocal", "Fixed", 2)
      [] opcode = "ALOAD_3" -> Effect("LoadLocal", "Fixed", 3)
      [] opcode = "ASTORE" -> Effect("StoreLocal", "OperandU8", 0)
      [] opcode = "ASTORE_0" -> Effect("StoreLocal", "Fixed", 0)
      [] opcode = "ASTORE_1" -> Effect("StoreLocal", "Fixed", 1)
      [] opcode = "ASTORE_2" -> Effect("StoreLocal", "Fixed", 2)
      [] opcode = "ASTORE_3" -> Effect("StoreLocal", "Fixed", 3)
      [] opcode = "POP" -> Effect("Pop", "", 1)
      [] opcode = "POP2" -> Effect("Pop", "", 2)
      [] opcode = "DUP" -> Effect("Dup", "", 0)
      [] opcode \in {"IFEQ", "IFNE", "IFLT", "IFGE", "IFGT", "IFLE", "IFNULL",
                     "IFNONNULL", "TABLESWITCH", "LOOKUPSWITCH"} -> Effect("Pop", "", 1)
      [] opcode \in {"IF_ICMPEQ", "IF_ICMPNE", "IF_ICMPLT", "IF_ICMPGE", "IF_ICMPGT",
                     "IF_ICMPLE"} -> Effect("Pop", "", 2)
      [] OTHER -> Effect("None", "", 0)

\* local_index: the byte after the opcode (0 when the code ends there), or
\* the slot the opcode names.
local_index(operand, effect) ==
    IF effect.slot = "OperandU8" THEN (IF operand = None THEN 0 ELSE operand[1])
    ELSE effect.n

\* An apply_default_semantics whose StoreLocal stores the top of the stack
\* and leaves it there.
apply_storing_without_pop(stack, locals, config, operand, opcode) ==
    LET effect == decode(opcode)
        index == local_index(operand, effect)
        Pushed(value) ==
            LET done == push(stack, config, value)
            IN  [outcome |-> "Applied", panic |-> done.panic, stack |-> done.stack,
                 locals |-> locals]
        Kept == [outcome |-> "Applied", panic |-> FALSE, stack |-> stack, locals |-> locals]
    IN  CASE effect.kind = "None" -> [Kept EXCEPT !.outcome = "NotHandled"]
          [] effect.kind = "PushUnknown" -> Pushed(unknown_value)
          [] effect.kind = "PushScalar" -> Pushed(scalar_value)
          [] effect.kind = "LoadLocal" -> Pushed(load_local(locals, config, index))
          [] effect.kind = "StoreLocal" ->
                [Kept EXCEPT !.locals = store_local(locals, config, index, pop(stack).value)]
          [] effect.kind = "Pop" -> [Kept EXCEPT !.stack = pop_n(stack, effect.n)]
          [] effect.kind = "Dup" ->
                IF stack = <<>> THEN Kept ELSE Pushed(stack[Len(stack)])

\* apply_default_semantics on a machine: the outcome, whether a push
\* panicked, and the machine's stack and locals afterwards.
apply_default_semantics(stack, locals, config, operand, opcode) ==
    LET effect == decode(opcode)
        index == local_index(operand, effect)
        Pushed(value) ==
            LET done == push(stack, config, value)
            IN  [outcome |-> "Applied", panic |-> done.panic, stack |-> done.stack,
                 locals |-> locals]
        Kept == [outcome |-> "Applied", panic |-> FALSE, stack |-> stack, locals |-> locals]
    IN  CASE effect.kind = "None" ->
                [outcome |-> "NotHandled", panic |-> FALSE, stack |-> stack,
                 locals |-> locals]
          [] effect.kind = "PushUnknown" -> Pushed(unknown_value)
          [] effect.kind = "PushScalar" -> Pushed(scalar_value)
          [] effect.kind = "LoadLocal" -> Pushed(load_local(locals, config, index))
          [] effect.kind = "StoreLocal" ->
                LET popped == pop(stack)
                IN  [outcome |-> "Applied", panic |-> FALSE, stack |-> popped.stack,
                     locals |-> store_local(locals, config, index, popped.value)]
          [] effect.kind = "Pop" -> [Kept EXCEPT !.stack = pop_n(stack, effect.n)]
          [] effect.kind = "Dup" ->
                IF stack = <<>> THEN Kept ELSE Pushed(stack[Len(stack)])

\* The bytes after the opcode in method.bytecode: none, or a local index.
Operands == {None} \cup {Some(index) : index \in LocalIndices}

\* apply_default_semantics(&mut machine, method, offset, opcode, domain)
ApplyDefaultSemantics(opcode, operand) ==
    LET done == apply_default_semantics(sm_stack, sm_locals, sm_config, operand, opcode)
    IN  /\ Alive
        /\ sm_stack' = done.stack
        /\ sm_locals' = done.locals
        /\ sm_last' = Last(IF done.panic THEN "panic" ELSE "apply_default_semantics",
                           default_value, {})
        /\ ap_last' = [opcode |-> opcode,
                       operand |-> IF decode(opcode).slot = "OperandU8" THEN operand ELSE None,
                       outcome |-> done.outcome]
        /\ UNCHANGED <<sm_config, apFrame>>

\* The operand bytes that make a difference: local_index reads the byte
\* for the OperandU8 slot only.
OperandsRead(opcode) == IF decode(opcode).slot = "OperandU8" THEN Operands ELSE {None}

ApNext ==
    \E opcode \in Opcodes : \E operand \in OperandsRead(opcode) :
        ApplyDefaultSemantics(opcode, operand)

DefaultSemanticsConfigs ==
    [max_stack_depth : {Some(2)},
     max_locals : {Some(MaxLocals)},
     max_symbolic_identities : {None}]

SmDefaultSemanticsInit ==
    /\ sm_config \in DefaultSemanticsConfigs
    /\ sm_stack = <<>>
    /\ sm_locals = <<>>
    /\ sm_last = Last("with_config", default_value, {})

InitDefaultSemantics == SmDefaultSemanticsInit /\ EngIdle /\ BlInit /\ ScIdle /\ ApIdle /\ CpIdle /\ AcIdle /\ CatIdle /\ CxIdle /\ LkIdle /\ HxIdle

SpecDefaultSemantics == InitDefaultSemantics /\ [][ApNext]_vars

(***************************************************************************)
(* Classpath index (src/classpath.rs).                                     *)
(*                                                                         *)
(* Class names and URIs are strings, modelled by their rank; the empty     *)
(* string has rank 0.  An artifact is its location's URI, None when the    *)
(* artifact has no location or the location no URI.                        *)
(***************************************************************************)
MaxClasses == 4

ClassNames == {1, 2}
ArtifactIndices == {0, 1}
Uris == {None, Some(1), Some(2)}

\* A Class as far as resolve_classpath's index reads it.
Class(name, artifact_index) == [name |-> name, artifact_index |-> artifact_index]

ClassLists == SeqsUpTo({Class(name, index) : name \in ClassNames, index \in ArtifactIndices}, MaxClasses)
ArtifactTables == SeqsUpTo(Uris, Cardinality(ArtifactIndices))

\* artifact_uri: the URI of the artifact at the index, "" if unavailable.
artifact_uri(artifacts, index) ==
    IF index >= 0 /\ index < Len(artifacts) THEN UnwrapOrEmpty(artifacts[index + 1]) ELSE 0

\* class_map: per class name, the artifact indices of its classes in the
\* order of the class list.
class_map(classes) ==
    [name \in {classes[k].name : k \in 1..Len(classes)} |->
        LET named == SelectSeq(classes, LAMBDA class : class.name = name)
        IN  [k \in 1..Len(named) |-> named[k].artifact_index]]

\* The indices as the class list gave them.
keep_scan_order(artifacts, indices) == indices

\* indices.sort_by(|a, b| artifact_uri(a).cmp(artifact_uri(b)))
sort_by_uri(artifacts, indices) ==
    StableSortByKey(indices, [p \in 1..Len(indices) |-> <<artifact_uri(artifacts, indices[p])>>])

\* One entry of error_duplicates: "{name}: [{index} ({uri}), ...]".
DuplicateEntry(artifacts, name, indices) ==
    [name |-> name,
     artifacts |-> [k \in 1..Len(indices) |->
                      [index |-> indices[k], uri |-> artifact_uri(artifacts, indices[k])]]]

\* An error that lists the first duplicated class name only.
first_duplicate_only(classes, artifacts) ==
    LET map == class_map(classes)
        names == AscendingIds({name \in DOMAIN map : Len(map[name]) > 1})
    IN  IF names = <<>> THEN <<>>
        ELSE <<DuplicateEntry(artifacts, names[1], map[names[1]])>>

\* error_duplicates of strict mode: an entry per class name with more than
\* one class, in the order of the names.
error_duplicates(classes, artifacts) ==
    LET map == class_map(classes)
        names == AscendingIds({name \in DOMAIN map : Len(map[name]) > 1})
    IN  [k \in 1..Len(names) |-> DuplicateEntry(artifacts, names[k], map[names[k]])]

CpErr(duplicates) == [ok |-> FALSE, classes |-> <<>>, duplicates |-> duplicates, warnings |-> <<>>]
CpOk(classes, warnings) == [ok |-> TRUE, classes |-> classes, duplicates |-> <<>>, warnings |-> warnings]

\* resolve_classpath: Err with the duplicates, or Ok with the index and the
\* warnings it emitted (class name, URI of the chosen artifact).
resolve_classpath(classes, artifacts, allow_duplicate_classes) ==
    LET map == class_map(classes)
        duplicated == AscendingIds({name \in DOMAIN map : Len(map[name]) > 1})
        sorted == [name \in DOMAIN map |->
                      IF Len(map[name]) > 1 /\ allow_duplicate_classes
                      THEN sort_by_uri(artifacts, map[name])
                      ELSE map[name]]
        errors == IF allow_duplicate_classes THEN <<>> ELSE error_duplicates(classes, artifacts)
        warnings == IF allow_duplicate_classes
                    THEN [k \in 1..Len(duplicated) |->
                            [name |-> duplicated[k],
                             uri |-> artifact_uri(artifacts, sorted[duplicated[k]][1])]]
                    ELSE <<>>
    IN  IF errors # <<>> THEN CpErr(errors)
        ELSE CpOk([name \in DOMAIN map |-> sorted[name][1]], warnings)

CpPending == [ok |-> FALSE, classes |-> <<>>, duplicates |-> <<>>, warnings |-> <<>>]

CpInit ==
    /\ cp_classes \in ClassLists
    /\ cp_artifacts \in ArtifactTables
    /\ cp_allow \in BOOLEAN
    /\ cp_result = CpPending

\* resolve_classpath(&scan.classes, &scan.artifacts, allow_duplicate_classes)
ResolveClasspath ==
    /\ cp_result = CpPending
    /\ cp_result' = resolve_classpath(cp_classes, cp_artifacts, cp_allow)
    /\ UNCHANGED <<cp_classes, cp_artifacts, cp_allow, cpFrame>>

CpNext == ResolveClasspath

InitClasspath == CpInit /\ EngIdle /\ BlInit /\ ScIdle /\ SmIdle /\ ApIdle /\ AcIdle /\ CatIdle /\ CxIdle /\ LkIdle /\ HxIdle

SpecClasspath == InitClasspath /\ [][CpNext]_vars

(***************************************************************************)
(* Analysis context (src/engine.rs) and the class loop of a rule           *)
(* (src/rules).                                                            *)
(***************************************************************************)
MaxArtifacts == 3

\* A SARIF artifact as far as analyze_artifacts reads its role and parent.
Artifact(target, parent_index) == [target |-> target, parent_index |-> parent_index]

ContextArtifactIndices == 0..(MaxArtifacts - 1)

ContextArtifacts ==
    SeqsUpTo({Artifact(target, parent) : target \in BOOLEAN,
              parent \in {None} \cup {Some(i) : i \in ContextArtifactIndices}},
             MaxArtifacts)

\* A class of the context: its artifact, and whether its code has what the
\* rule reports.
ContextClass(artifact_index, flagged) == [artifact_index |-> artifact_index, flagged |-> flagged]

ContextClassLists ==
    SeqsUpTo({ContextClass(index, flagged) : index \in ContextArtifactIndices,
              flagged \in BOOLEAN}, 2)

\* analyze_artifacts: the indices of the artifacts with the analysisTarget role.
analysis_target_artifacts(artifacts) == {k - 1 : k \in {j \in 1..Len(artifacts) : artifacts[j].target}}

\* analyze_artifacts: artifact_parents, as BTreeMap::get reads it.
artifact_parents_get(artifacts, index) ==
    IF index >= 0 /\ index < Len(artifacts) THEN artifacts[index + 1].parent_index ELSE None

\* The while loop of is_analysis_target_class from `current` on.  On an index
\* it has been at before without a target the loop goes round for ever.
RECURSIVE walk_parents(_, _, _)
walk_parents(artifacts, current, visited) ==
    IF current = None THEN "false"
    ELSE IF current[1] \in analysis_target_artifacts(artifacts) THEN "true"
    ELSE IF current[1] \in visited THEN "loops"
    ELSE walk_parents(artifacts, artifact_parents_get(artifacts, current[1]),
                      visited \cup {current[1]})

\* A test that reads the role of the class's own artifact only.
is_class_of_target_artifact(artifacts, class) ==
    IF analysis_target_artifacts(artifacts) = {} THEN "true"
    ELSE IF class.artifact_index \in analysis_target_artifacts(artifacts) THEN "true"
    ELSE "false"

\* AnalysisContext::is_analysis_target_class: "true", "false", or "loops"
\* when the call does not return.
is_analysis_target_class(artifacts, class) ==
    IF analysis_target_artifacts(artifacts) = {} THEN "true"
    ELSE walk_parents(artifacts, Some(class.artifact_index), {})

\* The positions of the classes a rule goes over, in order: None when a
\* call of is_analysis_target_class does not return.
TargetPositions(artifacts, classes) ==
    IF \E k \in 1..Len(classes) : is_analysis_target_class(artifacts, classes[k]) = "loops"
    THEN None
    ELSE Some(AscendingIds({k \in 1..Len(classes) :
                               is_analysis_target_class(artifacts, classes[k]) = "true"}))

\* AnalysisContext::analysis_target_classes: the classes of the context
\* whose artifact-parent walk finds an analysis-target artifact, every
\* class when no artifact is tagged.
analysis_target_classes(artifacts, classes) == TargetPositions(artifacts, classes)

\* Rule::run's results: one for each class it goes over whose code has
\* what the rule reports, naming the class by its position.
ClassResults(classes, positions) ==
    LET reported == SelectSeq(positions, LAMBDA k : classes[k].flagged)
    IN  [r \in 1..Len(reported) |-> [class |-> reported[r]]]

AcInit ==
    /\ ac_artifacts \in ContextArtifacts
    /\ ac_classes \in ContextClassLists
    /\ ac_run = [pc |-> "idle", rule |-> "", results |-> <<>>]

RuleRan(rule, positions) ==
    IF positions = None
    THEN [pc |-> "hung", rule |-> rule, results |-> <<>>]
    ELSE [pc |-> "done", rule |-> rule, results |-> ClassResults(ac_classes, positions[1])]

\* Rule::run of a rule that goes over context.classes and skips a class
\* unless context.is_analysis_target_class(class).
RunFilteringRule ==
    /\ ac_run.pc = "idle"
    /\ ac_run' = RuleRan("filtering", TargetPositions(ac_artifacts, ac_classes))
    /\ UNCHANGED <<ac_artifacts, ac_classes, acFrame>>

\* Rule::run of a rule that goes over context.analysis_target_classes().
RunIteratingRule ==
    /\ ac_run.pc = "idle"
    /\ ac_run' = RuleRan("iterating", analysis_target_classes(ac_artifacts, ac_classes))
    /\ UNCHANGED <<ac_artifacts, ac_classes, acFrame>>

AcNext ==
    \/ RunFilteringRule
    \/ RunIteratingRule

InitContext == AcInit /\ EngIdle /\ BlInit /\ ScIdle /\ SmIdle /\ ApIdle /\ CpIdle /\ CatIdle /\ CxIdle /\ LkIdle /\ HxIdle

SpecContext == InitContext /\ [][AcNext]_vars

InitEngine == EngInit /\ BlInit /\ ScIdle /\ SmIdle /\ ApIdle /\ CpIdle /\ AcIdle /\ CatIdle /\ CxIdle /\ LkIdle /\ HxIdle

InitStack == SmInit /\ EngIdle /\ BlInit /\ ScIdle /\ ApIdle /\ CpIdle /\ AcIdle /\ CatIdle /\ CxIdle /\ LkIdle /\ HxIdle

SpecStack == InitStack /\ [][SmNext]_vars

SpecEngine == InitEngine /\ [][EngNext]_vars

InitBaseline == BlInit /\ EngIdle /\ ScIdle /\ SmIdle /\ ApIdle /\ CpIdle /\ AcIdle /\ CatIdle /\ CxIdle /\ LkIdle /\ HxIdle

InitScan == ScInit /\ EngIdle /\ BlInit /\ SmIdle /\ ApIdle /\ CpIdle /\ AcIdle /\ CatIdle /\ CxIdle /\ LkIdle /\ HxIdle

SpecScan == InitScan /\ [][ScNext]_vars

SpecBaseline == InitBaseline /\ [][BlNext]_vars

(***************************************************************************)
(* Rule catalog (src/rules) and Engine::new (src/engine.rs).  An id is the *)
(* sequence of its characters.                                             *)
(***************************************************************************)
Digits == <<"0", "1", "2", "3", "4", "5", "6", "7", "8", "9">>
UpperLetters == <<"A", "B", "C", "D", "E", "F", "G", "H", "I", "J", "K", "L", "M",
                  "N", "O", "P", "Q", "R", "S", "T", "U", "V", "W", "X", "Y", "Z">>
LowerLetters == <<"a", "b", "c", "d", "e", "f", "g", "h", "i", "j", "k", "l", "m",
                  "n", "o", "p", "q", "r", "s", "t", "u", "v", "w", "x", "y", "z">>

\* The characters of the ids in the order of their bytes, which is the order
\* str::cmp compares by.
Bytes == Digits \o UpperLetters \o <<"_">> \o LowerLetters

Byte(c) == CHOOSE b \in 1..Len(Bytes) : Bytes[b] = c

\* const RULE_ID of the local complexity guard
RULE_ID ==
        <<"c", "o", "d", "e", "x", "_", "l", "o", "c", "a", "l", "_", "c", "o", "m",
          "p", "l", "e", "x", "i", "t", "y", "_", "g", "u", "a", "r", "d">>

\* metadata().id of every rule that a register_rule! of src/rules registers,
\* in the order of the rule directories; RULE_ID stands where its rule does.
registered_rule_ids ==
    <<
    \* BIGDECIMAL_DIVIDE_WITHOUT_ROUNDING
        <<"B", "I", "G", "D", "E", "C", "I", "M", "A", "L", "_", "D", "I", "V", "I",
          "D", "E", "_", "W", "I", "T", "H", "O", "U", "T", "_", "R", "O", "U", "N",
          "D", "I", "N", "G">>,
    \* BIGDECIMAL_SET_SCALE_WITHOUT_ROUNDING
        <<"B", "I", "G", "D", "E", "C", "I", "M", "A", "L", "_", "S", "E", "T", "_",
          "S", "C", "A", "L", "E", "_", "W", "I", "T", "H", "O", "U", "T", "_", "R",
          "O", "U", "N", "D", "I", "N", "G">>,
    \* codex_local_complexity_guard
        RULE_ID,
    \* COMPARETO_OVERFLOW
        <<"C", "O", "M", "P", "A", "R", "E", "T", "O", "_", "O", "V", "E", "R", "F",
          "L", "O", "W">>,
    \* EXCEPTION_CAUSE_NOT_PRESERVED
        <<"E", "X", "C", "E", "P", "T", "I", "O", "N", "_", "C", "A", "U", "S", "E",
          "_", "N", "O", "T", "_", "P", "R", "E", "S", "E", "R", "V", "E", "D">>,
    \* EXPLICIT_FINALIZE_CALL
        <<"E", "X", "P", "L", "I", "C", "I", "T", "_", "F", "I", "N", "A", "L", "I",
          "Z", "E", "_", "C", "A", "L", "L">>,
    \* EXPLICIT_GC_CALL
        <<"E", "X", "P", "L", "I", "C", "I", "T", "_", "G", "C", "_", "C", "A", "L",
          "L">>,
    \* FUTURE_GET_WITHOUT_TIMEOUT
        <<"F", "U", "T", "U", "R", "E", "_", "G", "E", "T", "_", "W", "I", "T", "H",
          "O", "U", "T", "_", "T", "I", "M", "E", "O", "U", "T">>,
    \* INTEGER_GETINTEGER_CALL
        <<"I", "N", "T", "E", "G", "E", "R", "_", "G", "E", "T", "I", "N", "T", "E",
          "G", "E", "R", "_", "C", "A", "L", "L">>,
    \* LOCK_NOT_RELEASED_ON_EXCEPTION_PATH
        <<"L", "O", "C", "K", "_", "N", "O", "T", "_", "R", "E", "L", "E", "A", "S",
          "E", "D", "_", "O", "N", "_", "E", "X", "C", "E", "P", "T", "I", "O", "N",
          "_", "P", "A", "T", "H">>,
    \* MAGIC_NUMBER
        <<"M", "A", "G", "I", "C", "_", "N", "U", "M", "B", "E", "R">>,
    \* OPTIONAL_GET_CALL
        <<"O", "P", "T", "I", "O", "N", "A", "L", "_", "G", "E", "T", "_", "C", "A",
          "L", "L">>,
    \* RUNTIME_HALT_CALL
        <<"R", "U", "N", "T", "I", "M", "E", "_", "H", "A", "L", "T", "_", "C", "A",
          "L", "L">>,
    \* STRING_FORMAT_LOCALE_MISSING
        <<"S", "T", "R", "I", "N", "G", "_", "F", "O", "R", "M", "A", "T", "_", "L",
          "O", "C", "A", "L", "E", "_", "M", "I", "S", "S", "I", "N", "G">>,
    \* STRING_INTERN_CALL
        <<"S", "T", "R", "I", "N", "G", "_", "I", "N", "T", "E", "R", "N", "_", "C",
          "A", "L", "L">>,
    \* URL_OPENSTREAM_CALL
        <<"U", "R", "L", "_", "O", "P", "E", "N", "S", "T", "R", "E", "A", "M", "_",
          "C", "A", "L", "L">>,
    \* VOLATILE_INCREMENT_NON_ATOMIC
        <<"V", "O", "L", "A", "T", "I", "L", "E", "_", "I", "N", "C", "R", "E", "M",
          "E", "N", "T", "_", "N", "O", "N", "_", "A", "T", "O", "M", "I", "C">>,
    \* WAIT_NOT_GUARDED_BY_LOOP
        <<"W", "A", "I", "T", "_", "N", "O", "T", "_", "G", "U", "A", "R", "D", "E",
          "D", "_", "B", "Y", "_", "L", "O", "O", "P">>
    >>

\* The orders all_rules may hand the registered rules over in: the order of
\* registration is not fixed by the rules, so any two of them may come the
\* other way round.
Swapped(s, i, j) ==
    [k \in 1..Len(s) |-> IF k = i THEN s[j] ELSE IF k = j THEN s[i] ELSE s[k]]

all_rules ==
    {Swapped(registered_rule_ids, i, j) :
        i \in 1..Len(registered_rule_ids), j \in 1..Len(registered_rule_ids)}

\* a.metadata().id.cmp(b.metadata().id): the ids as byte sequences
IdKey(id) == [k \in 1..Len(id) |-> Byte(id[k])]

\* let mut rules = crate::rules::all_rules();
AllRules ==
    /\ cat_pc = "start"
    /\ \E collected \in all_rules : cat_rules' = collected
    /\ cat_pc' = "collected"
    /\ UNCHANGED catFrame

\* rules.sort_by(|a, b| a.metadata().id.cmp(b.metadata().id)); Self { rules }
EngineNewSort ==
    /\ cat_pc = "collected"
    /\ cat_rules' = StableSortByKey(cat_rules, [p \in 1..Len(cat_rules) |-> IdKey(cat_rules[p])])
    /\ cat_pc' = "sorted"
    /\ UNCHANGED catFrame

CatNext == AllRules \/ EngineNewSort

InitCatalog == CatIdle /\ EngIdle /\ BlInit /\ ScIdle /\ SmIdle /\ ApIdle /\ CpIdle /\ AcIdle /\ CxIdle /\ LkIdle /\ HxIdle

SpecCatalog == InitCatalog /\ [][CatNext]_vars

(***************************************************************************)
(* Local complexity guard (src/rules/codex_local_complexity_guard/mod.rs). *)
(* The integers are Bits wide: u32 is 0..UMax, i32 is IMin..IMax.  The     *)
(* bytecode is the sequence of its instructions, as scan::opcode_length    *)
(* steps through it; a switch carries the operands the rule reads.         *)
(***************************************************************************)
Bits == 5
MaxInstructions == 3
MaxHandlers == 1

UMax == 2^Bits - 1
IMax == 2^(Bits - 1) - 1
IMin == -(2^(Bits - 1))

LOCAL_COMPLEXITY_THRESHOLD == 10

\* u32::wrapping_add
wrapping_add(a, b) == (a + b) % (UMax + 1)

\* u32::saturating_add
saturating_add(a, b) == IF a + b > UMax THEN UMax ELSE a + b

\* i32::checked_sub and i32::checked_add
checked_sub(a, b) == IF a - b < IMin \/ a - b > IMax THEN None ELSE Some(a - b)
checked_add(a, b) == IF a + b < IMin \/ a + b > IMax THEN None ELSE Some(a + b)

\* u32::try_from(i32)
u32_try_from(count) == IF count < 0 THEN None ELSE Some(count)

Plain == [kind |-> "other", low |-> 0, high |-> 0, npairs |-> 0]
ConditionalBranch == [kind |-> "conditional", low |-> 0, high |-> 0, npairs |-> 0]
TableSwitch(low, high) == [kind |-> "tableswitch", low |-> low, high |-> high, npairs |-> 0]
LookupSwitch(npairs) == [kind |-> "lookupswitch", low |-> 0, high |-> 0, npairs |-> npairs]

Instructions ==
    {Plain, ConditionalBranch}
        \cup {TableSwitch(low, high) : low \in {IMin, 1}, high \in {-1, 8, IMax}}
        \cup {LookupSwitch(npairs) : npairs \in {-1, 2}}

\* ExceptionHandler.catch_type
CatchTypes == {None, Some(1)}

Methods ==
    [access : {"plain", "abstract", "synthetic", "bridge"},
     instructions : SeqsUpTo(Instructions, MaxInstructions),
     exception_handlers : SeqsUpTo(CatchTypes, MaxHandlers)]

\* Result<u32>
CxOk(value) == [status |-> "ok", value |-> value]
CxErr == [status |-> "err", value |-> 0]

tableswitch_non_default_branch_count(instruction) ==
    LET distance == checked_sub(instruction.high, instruction.low)
        count == IF distance = None THEN None ELSE checked_add(distance[1], 1)
    IN  IF count = None THEN CxErr
        ELSE IF u32_try_from(count[1]) = None THEN CxErr
        ELSE CxOk(count[1])

lookupswitch_non_default_branch_count(instruction) ==
    IF u32_try_from(instruction.npairs) = None THEN CxErr ELSE CxOk(instruction.npairs)

\* let branch_contribution = match opcode { ... }
branch_contribution(instruction) ==
    CASE instruction.kind = "tableswitch" -> tableswitch_non_default_branch_count(instruction)
      [] instruction.kind = "lookupswitch" -> lookupswitch_non_default_branch_count(instruction)
      [] instruction.kind = "conditional" -> CxOk(1)
      [] OTHER -> CxOk(0)

\* The while loop of method_local_complexity from the instruction at
\* position k on, with decision_points counted so far.
RECURSIVE decision_points_from(_, _, _)
decision_points_from(instructions, k, decision_points) ==
    IF k > Len(instructions) THEN CxOk(decision_points)
    ELSE LET contribution == branch_contribution(instructions[k])
         IN  IF contribution.status = "err" THEN CxErr
             ELSE decision_points_from(instructions, k + 1,
                      saturating_add(decision_points, contribution.value))

catch_handlers(method) ==
    Cardinality({h \in 1..Len(method.exception_handlers) :
                    method.exception_handlers[h] # None})

method_local_complexity(method) ==
    LET counted == decision_points_from(method.instructions, 1, 0)
    IN  IF counted.status = "err" THEN CxErr
        ELSE CxOk(saturating_add(saturating_add(1, counted.value), catch_handlers(method)))

is_executable_method(method) == method.access # "abstract" /\ method.instructions # <<>>

is_compiler_generated_noise(method) == method.access \in {"synthetic", "bridge"}

CxInit ==
    /\ cx_method \in Methods
    /\ cx_result = [status |-> "none", value |-> 0]
    /\ cx_outcome = "pending"

\* if !is_executable_method(method) || is_compiler_generated_noise(method) { continue; }
SkipMethod ==
    /\ cx_outcome = "pending" /\ cx_result.status = "none"
    /\ ~is_executable_method(cx_method) \/ is_compiler_generated_noise(cx_method)
    /\ cx_outcome' = "skipped"
    /\ UNCHANGED <<cx_method, cx_result, cxFrame>>

\* let complexity = method_local_complexity(method)?;
MethodLocalComplexity ==
    /\ cx_outcome = "pending" /\ cx_result.status = "none"
    /\ is_executable_method(cx_method) /\ ~is_compiler_generated_noise(cx_method)
    /\ cx_result' = method_local_complexity(cx_method)
    /\ cx_outcome' = IF cx_result'.status = "err" THEN "error" ELSE "pending"
    /\ UNCHANGED <<cx_method, cxFrame>>

\* if complexity <= LOCAL_COMPLEXITY_THRESHOLD { continue; } ... findings.push(..)
CheckThreshold ==
    /\ cx_outcome = "pending" /\ cx_result.status = "ok"
    /\ cx_outcome' = IF cx_result.value <= LOCAL_COMPLEXITY_THRESHOLD
                     THEN "passed" ELSE "reported"
    /\ UNCHANGED <<cx_method, cx_result, cxFrame>>

CxNext == SkipMethod \/ MethodLocalComplexity \/ CheckThreshold

InitComplexity == CxInit /\ EngIdle /\ BlInit /\ ScIdle /\ SmIdle /\ ApIdle /\ CpIdle /\ AcIdle /\ CatIdle /\ LkIdle /\ HxIdle

SpecComplexity == InitComplexity /\ [][CxNext]_vars

(***************************************************************************)
(* Lock rule (src/rules/lock_not_released_on_exception_path/mod.rs).  A    *)
(* block is the sequence of its instructions, each a call of lock(), a     *)
(* call of unlock() or anything else; block b starts at offset             *)
(* (b - 1) * BlockStride.                                                  *)
(***************************************************************************)
MaxBlocks == 2

BlockBodies ==
    {<<"other">>, <<"lock">>, <<"unlock">>, <<"lock", "unlock">>, <<"unlock", "lock">>}

BlockStride == 2

start_offset(b) == (b - 1) * BlockStride

\* Method.cfg: the blocks by their number, the edges as pairs of block starts
LockMethods ==
    UNION {[blocks : [1..n -> BlockBodies],
            edges : SUBSET ({start_offset(b) : b \in 1..n} \X {start_offset(b) : b \in 1..n})]
           : n \in 1..MaxBlocks}

is_lock_invocation(instruction) == instruction = "lock"

is_unlock_invocation(instruction) == instruction = "unlock"

LockSite(block_start, instruction_index, offset) ==
    [block_start |-> block_start, instruction_index |-> instruction_index, offset |-> offset]

\* lock_sites: the lock calls of every block, sorted by offset.  The
\* instruction at index i (from 0) of a block is at the block's start + i.
lock_sites(method) ==
    LET found == {LockSite(start_offset(b), i - 1, start_offset(b) + i - 1) :
                     b \in DOMAIN method.blocks, i \in 1..BlockStride}
        sites == {site \in found :
                     \E b \in DOMAIN method.blocks :
                        /\ site.block_start = start_offset(b)
                        /\ site.instruction_index + 1 \in DOMAIN method.blocks[b]
                        /\ is_lock_invocation(method.blocks[b][site.instruction_index + 1])}
        offsets == AscendingIds({site.offset : site \in sites})
    IN  [k \in 1..Len(offsets) |-> CHOOSE site \in sites : site.offset = offsets[k]]

\* block_map.get(&block_start)
block_map_get(method, block_start) ==
    LET found == {b \in DOMAIN method.blocks : start_offset(b) = block_start}
    IN  IF found = {} THEN None ELSE Some(method.blocks[CHOOSE b \in found : TRUE])

\* successor_map.get(&block_start): the targets sorted and deduplicated, None
\* for a block no edge leaves.
successor_map_get(method, block_start) ==
    LET targets == {edge[2] : edge \in {e \in method.edges : e[1] = block_start}}
    IN  IF targets = {} THEN None ELSE Some(AscendingIds(targets))

ExplorationState(block_start, instruction_index, unlock_seen) ==
    [block_start |-> block_start, instruction_index |-> instruction_index,
     unlock_seen |-> unlock_seen]

\* The same loop over the whole block, the instructions before
\* instruction_index included.
unlock_seen_in_whole_block(block, instruction_index, unlock_seen) ==
    unlock_seen \/ \E i \in 1..Len(block) : is_unlock_invocation(block[i])

\* for instruction in block.instructions.iter().skip(state.instruction_index)
unlock_seen_after(block, instruction_index, unlock_seen) ==
    unlock_seen \/ \E i \in (instruction_index + 1)..Len(block) : is_unlock_invocation(block[i])

LkInit ==
    /\ lk_method \in LockMethods
    /\ lk_sites = <<>>
    /\ lk_site = <<>>
    /\ lk_queue = <<>>
    /\ lk_visited = {}
    /\ lk_results = <<>>
    /\ lk_pc = "start"

\* let lock_sites = lock_sites(method); if lock_sites.is_empty() { continue; }
LockSites ==
    /\ lk_pc = "start"
    /\ lk_sites' = lock_sites(lk_method)
    /\ lk_pc' = IF lk_sites' = <<>> THEN "done" ELSE "sites"
    /\ UNCHANGED <<lk_method, lk_site, lk_queue, lk_visited, lk_results, lkFrame>>

\* for site in lock_sites { ... has_exit_path_without_unlock(.., site) up to
\* its first pop_front
BeginSite ==
    /\ lk_pc = "sites" /\ lk_sites # <<>>
    /\ lk_site' = <<Head(lk_sites)>>
    /\ lk_sites' = Tail(lk_sites)
    /\ lk_queue' = <<ExplorationState(Head(lk_sites).block_start,
                                      Head(lk_sites).instruction_index + 1, FALSE)>>
    /\ lk_visited' = {}
    /\ lk_pc' = "exploring"
    /\ UNCHANGED <<lk_method, lk_results, lkFrame>>

\* return true: the rule pushes the finding of the site
ReturnTrue ==
    /\ lk_results' = Append(lk_results, lk_site[1].offset)
    /\ lk_queue' = <<>>
    /\ lk_pc' = "sites"

\* One turn of while let Some(state) = queue.pop_front().
ExploreState ==
    /\ lk_pc = "exploring" /\ lk_queue # <<>>
    /\ LET state == Head(lk_queue)
           block == block_map_get(lk_method, state.block_start)
           successors == successor_map_get(lk_method, state.block_start)
           unlock_seen == unlock_seen_after(block[1], state.instruction_index, state.unlock_seen)
       IN  IF state \in lk_visited \/ block = None
           THEN /\ lk_queue' = Tail(lk_queue)
                /\ lk_visited' = lk_visited \cup {state}
                /\ UNCHANGED <<lk_results, lk_pc>>
           ELSE /\ lk_visited' = lk_visited \cup {state}
                /\ IF successors = None \/ successors = Some(<<>>)
                   THEN IF ~unlock_seen
                        THEN ReturnTrue
                        ELSE /\ lk_queue' = Tail(lk_queue)
                             /\ UNCHANGED <<lk_results, lk_pc>>
                   ELSE /\ lk_queue' = Tail(lk_queue) \o
                                [k \in 1..Len(successors[1]) |->
                                    ExplorationState(successors[1][k], 0, unlock_seen)]
                        /\ UNCHANGED <<lk_results, lk_pc>>
    /\ UNCHANGED <<lk_method, lk_sites, lk_site, lkFrame>>

\* The queue is empty: has_exit_path_without_unlock returns false.
ReturnFalse ==
    /\ lk_pc = "exploring" /\ lk_queue = <<>>
    /\ lk_pc' = "sites"
    /\ UNCHANGED <<lk_method, lk_sites, lk_site, lk_queue, lk_visited, lk_results, lkFrame>>

\* The loop over the lock sites is through.
SitesDone ==
    /\ lk_pc = "sites" /\ lk_sites = <<>>
    /\ lk_pc' = "done"
    /\ UNCHANGED <<lk_method, lk_sites, lk_site, lk_queue, lk_visited, lk_results, lkFrame>>

LkNext == LockSites \/ BeginSite \/ ExploreState \/ ReturnFalse \/ SitesDone

InitLock == LkInit /\ EngIdle /\ BlInit /\ ScIdle /\ SmIdle /\ ApIdle /\ CpIdle /\ AcIdle /\ CatIdle /\ CxIdle /\ HxIdle

\* The rule runs on: no step of it waits for anything.
SpecLock == InitLock /\ [][LkNext]_vars /\ WF_vars(LkNext)

(***************************************************************************)
(* Exception cause rule (src/rules/exception_cause_not_preserved/mod.rs)   *)
(* over StackMachine<Value>.  Value::Other is the machine's default value, *)
(* Value::New(offset) its symbolic value.  An instruction is its offset,   *)
(* its opcode, the byte after the opcode and, for an invoke, its call.     *)
(* The worklist driver (dataflow::worklist::analyze_method) is the         *)
(* algorithm of section 4.3 of the specification.                          *)
(***************************************************************************)
MAX_TRACKED_STACK_DEPTH == 24
MAX_TRACKED_ALLOCATIONS == 4

Other == Unknown
Caught == [tag |-> "Caught", id |-> 0]
New(offset) == Symbol(offset)

\* A machine configured without a cap on its stack.
UncappedConfig ==
    [max_stack_depth |-> None, max_locals |-> None,
     max_symbolic_identities |-> Some(MAX_TRACKED_ALLOCATIONS)]

\* The StackMachineConfig of initial_machine
HandlerConfig ==
    [max_stack_depth |-> Some(MAX_TRACKED_STACK_DEPTH), max_locals |-> None,
     max_symbolic_identities |-> Some(MAX_TRACKED_ALLOCATIONS)]

Machine(stack, locals) == [stack |-> stack, locals |-> locals]

\* initial_machine: with_config(Value::Other, ..); machine.push(Value::Caught)
initial_machine == Machine(push(<<>>, HandlerConfig, Caught).stack, <<>>)

ExecutionState(block_start, instruction_index, machine, preserved_allocations) ==
    [block_start |-> block_start, instruction_index |-> instruction_index,
     machine |-> machine, preserved_allocations |-> preserved_allocations]

\* CallSite: name, the parameter count and the return kind of its
\* descriptor, and its CallKind
CallSite(name, param_count, kind, returns) ==
    [name |-> name, param_count |-> param_count, kind |-> kind, returns |-> returns]

Instruction(offset, opcode, operand, call) ==
    [offset |-> offset, opcode |-> opcode, operand |-> operand, call |-> call]

is_return_opcode(opcode) ==
    opcode \in {"IRETURN", "LRETURN", "FRETURN", "DRETURN", "ARETURN", "RETURN"}

\* handle_invoke
handle_invoke(call, state) ==
    LET stack == state.machine.stack
        taken == IF call.param_count < Len(stack) THEN call.param_count ELSE Len(stack)
        args == {stack[k] : k \in (Len(stack) - taken + 1)..Len(stack)}
        after_args == pop_n(stack, call.param_count)
        receiver == IF call.kind = "Static" THEN None ELSE Some(pop(after_args).value)
        after_receiver == IF call.kind = "Static" THEN after_args ELSE pop(after_args).stack
        has_caught_argument == Caught \in args
        receiver_is_new == receiver # None /\ receiver[1].tag = "Symbol"
        preserved ==
            IF /\ call.name \in {"<init>", "initCause", "addSuppressed"}
               /\ has_caught_argument /\ receiver_is_new
            THEN state.preserved_allocations \cup {receiver[1].id}
            ELSE state.preserved_allocations
        return_value ==
            IF call.name = "initCause" THEN receiver
            ELSE IF call.returns = "Void" THEN None ELSE Some(Other)
        pushed ==
            IF call.name = "<init>" \/ return_value = None THEN after_receiver
            ELSE push(after_receiver, HandlerConfig, return_value[1]).stack
    IN  [state EXCEPT !.machine.stack = pushed, !.preserved_allocations = preserved]

\* apply_stack_effect: the default semantics for every opcode but NEW that
\* they apply to, else the arm of the opcode, then the call of an invoke.
apply_stack_effect(instruction, state) ==
    LET machine == state.machine
        default == apply_default_semantics(machine.stack, machine.locals, HandlerConfig,
                                           instruction.operand, instruction.opcode)
        by_opcode ==
            CASE instruction.opcode = "NEW" ->
                    push(machine.stack, HandlerConfig, New(instruction.offset)).stack
              [] instruction.opcode = "AALOAD" ->
                    push(pop_n(machine.stack, 2), HandlerConfig, Other).stack
              [] instruction.opcode = "AASTORE" -> pop_n(machine.stack, 3)
              [] instruction.opcode \in {"IF_ACMPEQ", "IF_ACMPNE"} -> pop_n(machine.stack, 2)
              [] instruction.opcode \in {"GOTO", "GOTO_W"} -> machine.stack
              [] instruction.opcode \in {"NEWARRAY", "ANEWARRAY", "ARRAYLENGTH", "CHECKCAST",
                                         "INSTANCEOF"} ->
                    push(pop_n(machine.stack, 1), HandlerConfig, Other).stack
              [] instruction.opcode \in {"MONITORENTER", "MONITOREXIT"} ->
                    pop_n(machine.stack, 1)
              [] OTHER -> machine.stack
        matched == [state EXCEPT !.machine.stack = by_opcode]
    IN  IF instruction.opcode # "NEW" /\ default.outcome = "Applied"
        THEN [state EXCEPT !.machine = Machine(default.stack, default.locals)]
        ELSE IF instruction.call # None THEN handle_invoke(instruction.call[1], matched)
        ELSE matched

\* prune_preserved_allocations
prune_preserved_allocations(state) ==
    LET capped == enforce_symbolic_identity_cap_u32(state.machine.stack,
                                                    state.machine.locals, HandlerConfig)
        tracked_allocations == IF capped.tracked = None THEN {} ELSE capped.tracked[1]
        retained == {i \in DOMAIN capped.locals :
                        \/ capped.locals[i] = Caught
                        \/ /\ capped.locals[i].tag = "Symbol"
                           /\ capped.locals[i].id \in tracked_allocations}
    IN  [state EXCEPT
            !.machine = Machine(capped.stack, [i \in retained |-> capped.locals[i]]),
            !.preserved_allocations = state.preserved_allocations \cap tracked_allocations]

\* canonicalize_state
canonicalize_state(state) ==
    LET done == canonicalize_symbolic_ids_u32(state.machine.stack, state.machine.locals,
                                              state.preserved_allocations)
    IN  [state EXCEPT
            !.machine = Machine(done.stack, done.locals),
            !.preserved_allocations =
                {done.mapping[offset] :
                    offset \in state.preserved_allocations \cap DOMAIN done.mapping}]

\* InstructionStep: continue_path(), terminate_path(), .with_finding(offset)
InstructionStep(terminated, finding, state) ==
    [terminated |-> terminated, finding |-> finding, state |-> state]

\* HandlerSemantics::transfer_instruction
transfer_instruction(instruction, state) ==
    IF is_return_opcode(instruction.opcode)
    THEN InstructionStep(TRUE, None, apply_stack_effect(instruction, state))
    ELSE IF instruction.opcode = "ATHROW"
    THEN LET thrown == pop(state.machine.stack)
             popped == [state EXCEPT !.machine.stack = thrown.stack]
         IN  IF /\ thrown.value.tag = "Symbol"
                /\ thrown.value.id \notin state.preserved_allocations
             THEN InstructionStep(TRUE, Some(instruction.offset), popped)
             ELSE InstructionStep(TRUE, None, popped)
    ELSE InstructionStep(FALSE, None,
             prune_preserved_allocations(apply_stack_effect(instruction, state)))

\* A filter that lets every successor through.
every_successor(successors, handler_pc) == successors

\* on_block_end: successors.iter().copied().filter(|s| *s >= self.handler_pc)
bounded_successors(successors, handler_pc) ==
    LET kept == {k \in 1..Len(successors) : successors[k] >= handler_pc}
        order == AscendingIds(kept)
    IN  [k \in 1..Len(order) |-> successors[order[k]]]

\* handler_offsets: the handler_pc of every handler, through a BTreeSet
handler_offsets(method) ==
    AscendingIds({method.exception_handlers[h] : h \in DOMAIN method.exception_handlers})

\* The calls of the handlers below.
InitPlain == CallSite("<init>", 0, "Special", "Void")
InitWithCause == CallSite("<init>", 1, "Special", "Void")
InitCause == CallSite("initCause", 1, "Virtual", "Reference")
AddSuppressed == CallSite("addSuppressed", 1, "Virtual", "Void")

\* catch (E e) { throw new R(); }, under two handler entries of one handler_pc
ThrowsNewWithoutCause ==
    [blocks |->
        10 :> <<Instruction(10, "ASTORE_1", None, None),
              Instruction(11, "NEW", None, None),
              Instruction(14, "DUP", None, None),
              Instruction(15, "INVOKESPECIAL", None, Some(InitPlain)),
              Instruction(18, "ATHROW", None, None)>>,
     edges |-> {},
     exception_handlers |-> <<10, 10>>]

\* catch (E e) { throw new R(e); }
ThrowsNewWithCause ==
    [blocks |->
        10 :> <<Instruction(10, "ASTORE_1", None, None),
              Instruction(11, "NEW", None, None),
              Instruction(14, "DUP", None, None),
              Instruction(15, "ALOAD_1", None, None),
              Instruction(16, "INVOKESPECIAL", None, Some(InitWithCause)),
              Instruction(19, "ATHROW", None, None)>>,
     edges |-> {},
     exception_handlers |-> <<10>>]

\* catch (E e) { R r = new R(); r.initCause(e); throw r; }
ThrowsAfterInitCause ==
    [blocks |->
        10 :> <<Instruction(10, "ASTORE_1", None, None),
              Instruction(11, "NEW", None, None),
              Instruction(14, "DUP", None, None),
              Instruction(15, "INVOKESPECIAL", None, Some(InitPlain)),
              Instruction(18, "ASTORE_2", None, None),
              Instruction(19, "ALOAD_2", None, None),
              Instruction(20, "ALOAD_1", None, None),
              Instruction(21, "INVOKEVIRTUAL", None, Some(InitCause)),
              Instruction(24, "POP", None, None),
              Instruction(25, "ALOAD_2", None, None),
              Instruction(26, "ATHROW", None, None)>>,
     edges |-> {},
     exception_handlers |-> <<10>>]

\* catch (E e) { R r = new R(); r.addSuppressed(e); throw r; }
ThrowsAfterAddSuppressed ==
    [blocks |->
        10 :> <<Instruction(10, "ASTORE_1", None, None),
              Instruction(11, "NEW", None, None),
              Instruction(14, "DUP", None, None),
              Instruction(15, "INVOKESPECIAL", None, Some(InitPlain)),
              Instruction(18, "ASTORE_2", None, None),
              Instruction(19, "ALOAD_2", None, None),
              Instruction(20, "ALOAD_1", None, None),
              Instruction(21, "INVOKEVIRTUAL", None, Some(AddSuppressed)),
              Instruction(24, "ALOAD_2", None, None),
              Instruction(25, "ATHROW", None, None)>>,
     edges |-> {},
     exception_handlers |-> <<10>>]

\* catch (E e) { throw e; }
RethrowsCaught ==
    [blocks |->
        10 :> <<Instruction(10, "ASTORE_1", None, None),
              Instruction(11, "ALOAD_1", None, None),
              Instruction(12, "ATHROW", None, None)>>,
     edges |-> {},
     exception_handlers |-> <<10>>]

\* for (;;) try { throw new T(); } catch (E e) { if (e != null) continue; throw new R(); }:
\* the handler at 10 branches back to the try body at 0
RetriesOrThrows ==
    [blocks |->
        0 :> <<Instruction(0, "NEW", None, None),
              Instruction(3, "DUP", None, None),
              Instruction(4, "INVOKESPECIAL", None, Some(InitPlain)),
              Instruction(7, "ATHROW", None, None)>>
        @@ 10 :> <<Instruction(10, "ASTORE_1", None, None),
              Instruction(11, "ALOAD_1", None, None),
              Instruction(12, "IFNULL", None, None)>>
        @@ 15 :> <<Instruction(15, "GOTO", None, None)>>
        @@ 18 :> <<Instruction(18, "NEW", None, None),
              Instruction(21, "DUP", None, None),
              Instruction(22, "INVOKESPECIAL", None, Some(InitPlain)),
              Instruction(25, "ATHROW", None, None)>>,
     edges |-> {<<0, 10>>, <<10, 15>>, <<10, 18>>, <<15, 0>>},
     exception_handlers |-> <<10>>]

\* catch (E e) { do { push new R } while (e != null); throw the last one }:
\* a loop in the handler that allocates on every turn
AllocatesInLoop ==
    [blocks |->
        10 :> <<Instruction(10, "ASTORE_1", None, None)>>
        @@ 11 :> <<Instruction(11, "NEW", None, None),
              Instruction(14, "ALOAD_1", None, None),
              Instruction(15, "IFNULL", None, None)>>
        @@ 18 :> <<Instruction(18, "ATHROW", None, None)>>,
     edges |-> {<<10, 11>>, <<11, 11>>, <<11, 18>>},
     exception_handlers |-> <<10>>]

\* catch (E e) { R r = new R(); A a = new A(); B b = new B(); C c = new C();
\* D d = new D(); throw r; }
ThrowsFirstOfFive ==
    [blocks |->
        10 :> <<Instruction(10, "ASTORE_1", None, None),
              Instruction(11, "NEW", None, None),
              Instruction(14, "DUP", None, None),
              Instruction(15, "INVOKESPECIAL", None, Some(InitPlain)),
              Instruction(18, "ASTORE", Some(2), None),
              Instruction(20, "NEW", None, None),
              Instruction(23, "DUP", None, None),
              Instruction(24, "INVOKESPECIAL", None, Some(InitPlain)),
              Instruction(27, "ASTORE", Some(3), None),
              Instruction(29, "NEW", None, None),
              Instruction(32, "DUP", None, None),
              Instruction(33, "INVOKESPECIAL", None, Some(InitPlain)),
              Instruction(36, "ASTORE", Some(4), None),
              Instruction(38, "NEW", None, None),
              Instruction(41, "DUP", None, None),
              Instruction(42, "INVOKESPECIAL", None, Some(InitPlain)),
              Instruction(45, "ASTORE", Some(5), None),
              Instruction(47, "NEW", None, None),
              Instruction(50, "DUP", None, None),
              Instruction(51, "INVOKESPECIAL", None, Some(InitPlain)),
              Instruction(54, "ASTORE", Some(6), None),
              Instruction(56, "ALOAD", Some(2), None),
              Instruction(58, "ATHROW", None, None)>>,
     edges |-> {},
     exception_handlers |-> <<10>>]

\* A handler at offset 1, behind a try range of one byte, that loops over two
\* allocations: new at 1, new at 4, goto 1
AllocatesTwiceInLoop ==
    [blocks |->
        1 :> <<Instruction(1, "NEW", None, None),
              Instruction(4, "NEW", None, None),
              Instruction(7, "GOTO", None, None)>>,
     edges |-> {<<1, 1>>},
     exception_handlers |-> <<1>>]

HandlerMethods ==
    {ThrowsNewWithoutCause, ThrowsNewWithCause, ThrowsAfterInitCause,
     ThrowsAfterAddSuppressed, RethrowsCaught, RetriesOrThrows,
     AllocatesInLoop, ThrowsFirstOfFive, AllocatesTwiceInLoop}

\* The CFG successors of a block, in ascending order.
cfg_successors(method, block_start) ==
    AscendingIds({edge[2] : edge \in {e \in method.edges : e[1] = block_start}})

\* The `new` instructions an identity of a state stands for, after an
\* instruction: what it stood for before, and the instruction itself if it
\* is the `new` at that offset.
OriginsAfterInstruction(origins, instruction, state) ==
    LET live == LiveIds(state.machine.stack, state.machine.locals)
                    \cup state.preserved_allocations
    IN  [id \in live |->
            (IF id \in DOMAIN origins THEN origins[id] ELSE {})
                \cup (IF instruction.opcode = "NEW" /\ id = instruction.offset
                      THEN {instruction.offset} ELSE {})]

\* The same after canonicalize_state: an identity stands for what the
\* identity it was mapped from stood for.
OriginsAfterCanonicalize(origins, state) ==
    LET mapping == canonicalize_symbolic_ids_u32(state.machine.stack, state.machine.locals,
                                                 state.preserved_allocations).mapping
    IN  [id \in {mapping[raw] : raw \in DOMAIN mapping} |->
            UNION {IF raw \in DOMAIN origins THEN origins[raw] ELSE {} :
                      raw \in {r \in DOMAIN mapping : mapping[r] = id}}]

Queued(state, origins) == [state |-> state, origins |-> origins]

\* The last turn: what it was, the block and the instruction it was at, and
\* the number of turns the worklist has taken for the handler so far.
HxLast(turn, block_start, opcode, offset, turns) ==
    [turn |-> turn, block_start |-> block_start, opcode |-> opcode, offset |-> offset,
     turns |-> turns]

HxInit ==
    /\ hx_method \in HandlerMethods
    /\ hx_handlers = <<>>
    /\ hx_handler_pc = None
    /\ hx_queue = <<>>
    /\ hx_visited = {}
    /\ hx_entered = <<>>
    /\ hx_findings = <<>>
    /\ hx_results = <<>>
    /\ hx_last = HxLast("none", 0, "", 0, 0)
    /\ hx_pc = "start"

\* for handler_pc in handler_offsets(method)
HandlerOffsets ==
    /\ hx_pc = "start"
    /\ hx_handlers' = handler_offsets(hx_method)
    /\ hx_pc' = "handlers"
    /\ UNCHANGED <<hx_method, hx_handler_pc, hx_queue, hx_visited, hx_entered,
                   hx_findings, hx_results, hx_last, hxFrame>>

\* analyze_handler(method, handler_pc): HandlerSemantics::new, and the
\* worklist seeded with initial_states
AnalyzeHandler ==
    /\ hx_pc = "handlers" /\ hx_handlers # <<>>
    /\ hx_handler_pc' = Some(Head(hx_handlers))
    /\ hx_handlers' = Tail(hx_handlers)
    /\ hx_queue' = <<Queued(ExecutionState(Head(hx_handlers), 0, initial_machine, {}), <<>>)>>
    /\ hx_visited' = {}
    /\ hx_entered' = <<>>
    /\ hx_findings' = <<>>
    /\ hx_last' = HxLast("seed", Head(hx_handlers), "", 0, 0)
    /\ hx_pc' = "exploring"
    /\ UNCHANGED <<hx_method, hx_results, hxFrame>>

\* The successor states of a block end that the worklist enqueues: each
\* state on_block_end returns, canonicalized, unless the visited set holds it.
EnteredStates(state, origins) ==
    LET successors == bounded_successors(cfg_successors(hx_method, state.block_start),
                                         hx_handler_pc[1])
        entering == [k \in 1..Len(successors) |->
                        canonicalize_state([state EXCEPT !.block_start = successors[k],
                                                         !.instruction_index = 0])]
        fresh == {k \in 1..Len(successors) : entering[k] \notin hx_visited}
        order == AscendingIds(fresh)
    IN  [k \in 1..Len(order) |->
            Queued(entering[order[k]], OriginsAfterCanonicalize(origins, state))]

\* One turn of the worklist: pop a state; within its block transfer the
\* instruction, bump the index and enqueue the state again unless the path
\* is terminated; past the end of the block enqueue the successor states.
WorklistTurn ==
    /\ hx_pc = "exploring" /\ hx_queue # <<>>
    /\ LET state == Head(hx_queue).state
           origins == Head(hx_queue).origins
           block == hx_method.blocks[state.block_start]
       IN  IF state.instruction_index < Len(block)
           THEN LET instruction == block[state.instruction_index + 1]
                    step == transfer_instruction(instruction, state)
                    next == [step.state EXCEPT !.instruction_index = state.instruction_index + 1]
                IN  /\ hx_queue' =
                        IF step.terminated THEN Tail(hx_queue)
                        ELSE Append(Tail(hx_queue),
                                 Queued(next, OriginsAfterInstruction(origins, instruction, next)))
                    /\ hx_findings' =
                        IF step.finding = None THEN hx_findings
                        ELSE Append(hx_findings, step.finding[1])
                    /\ hx_last' = HxLast(IF step.terminated THEN "terminated" ELSE "instruction",
                                         state.block_start, instruction.opcode,
                                         instruction.offset, hx_last.turns + 1)
                    /\ UNCHANGED <<hx_visited, hx_entered>>
           ELSE LET entered == EnteredStates(state, origins)
                IN  /\ hx_queue' = Tail(hx_queue) \o entered
                    /\ hx_visited' = hx_visited \cup {entered[k].state : k \in 1..Len(entered)}
                    /\ hx_entered' = hx_entered \o [k \in 1..Len(entered) |-> entered[k].state]
                    /\ hx_last' = HxLast("block_end", state.block_start, "", 0, hx_last.turns + 1)
                    /\ UNCHANGED hx_findings
    /\ UNCHANGED <<hx_method, hx_handlers, hx_handler_pc, hx_results, hx_pc, hxFrame>>

\* The worklist is empty: analyze_handler returns the findings through a
\* BTreeSet, and the rule pushes a result for each (handler_pc, throw_offset)
\* that seen_findings does not hold yet.
HandlerAnalyzed ==
    /\ hx_pc = "exploring" /\ hx_queue = <<>>
    /\ LET throw_offsets == AscendingIds(Range(hx_findings))
           unseen == {k \in 1..Len(throw_offsets) :
                         <<hx_handler_pc[1], throw_offsets[k]>> \notin Range(hx_results)}
           order == AscendingIds(unseen)
       IN  hx_results' = hx_results \o
               [k \in 1..Len(order) |-> <<hx_handler_pc[1], throw_offsets[order[k]]>>]
    /\ hx_last' = HxLast("analyzed", hx_handler_pc[1], "", 0, hx_last.turns)
    /\ hx_pc' = "handlers"
    /\ UNCHANGED <<hx_method, hx_handlers, hx_handler_pc, hx_queue, hx_visited,
                   hx_entered, hx_findings, hxFrame>>

\* The loop over the handler offsets is through.
HandlersDone ==
    /\ hx_pc = "handlers" /\ hx_handlers = <<>>
    /\ hx_pc' = "done"
    /\ UNCHANGED <<hx_method, hx_handlers, hx_handler_pc, hx_queue, hx_visited,
                   hx_entered, hx_findings, hx_results, hx_last, hxFrame>>

HxNext == HandlerOffsets \/ AnalyzeHandler \/ WorklistTurn \/ HandlerAnalyzed \/ HandlersDone

InitHandler == HxInit /\ EngIdle /\ BlInit /\ ScIdle /\ SmIdle /\ ApIdle /\ CpIdle /\ AcIdle /\ CatIdle /\ CxIdle /\ LkIdle

SpecHandler == InitHandler /\ [][HxNext]_vars

(***************************************************************************)
(* Engine: claims.                                                         *)
(***************************************************************************)
Returned == analyze_result.status # "pending"
Succeeded == analyze_result.status = "ok"
Failing == {i \in 1..N : ~rules[i].run.ok}
RegisteredIds == {rules[i].id : i \in 1..N}

\* The run of the same rules on one thread, one rule after the other.
SerialOutputs == [i \in 1..N |-> RuleOutput(rules[i])]

\* The rules' stamped result lists, concatenated in the engine's rule order.
Concatenated == Flatten([i \in 1..N |-> SerialOutputs[i].results])

SortKey(r) == <<UnwrapOrEmpty(r.rule_id), UnwrapOrEmpty(r.msg)>>
KeyLeq(a, b) == a[1] < b[1] \/ (a[1] = b[1] /\ a[2] <= b[2])

\* C1: whatever the pool size and the order in which the rule executions run
\* and finish, analyze succeeds exactly when no rule fails, and then returns
\* the descriptors and results of the one-thread, in-order run of the same
\* rules on the same context.
C1_ScheduleIndependentOutput ==
    Returned =>
        /\ Succeeded <=> Failing = {}
        /\ Succeeded => analyze_result = Assemble(SerialOutputs)

C1_Witness ==
    /\ Succeeded
    /\ pool_size > 1
    /\ N >= 2
    /\ finished # [i \in 1..N |-> i]
    /\ Len(analyze_result.results) >= 2

\* The rules whose run has returned an error in this analyze call.
Failed == {i \in Failing : task[i] = "done"}

\* C2: when more than one rule has returned an error, the error analyze
\* returns is the error of the failing rule with the smallest rule id.
C2_ErrorOfSmallestRuleId ==
    (analyze_result.status = "err" /\ Cardinality(Failed) > 1) =>
        rules[analyze_result.error].id = Min({rules[i].id : i \in Failed})

\* C4: every result of a successful analyze carries the id of a registered
\* rule, whether the engine stamped it or the rule had set it.
C4_RuleIdsRegistered ==
    Succeeded =>
        \A k \in 1..Len(analyze_result.results) :
            LET r == analyze_result.results[k]
            IN  r.rule_id # None /\ r.rule_id[1] \in RegisteredIds

\* C5: in a successful output the descriptors ascend by rule id, the results
\* ascend by (rule_id, message text), and the results of one key stand in the
\* order they had in the concatenation of the rules' lists.
C5_SortedOutput ==
    Succeeded =>
        LET ds == analyze_result.rules
            rs == analyze_result.results
        IN  /\ Len(ds) = N
            /\ \A i \in 1..Len(ds) : \A j \in i..Len(ds) : ds[i] <= ds[j]
            /\ \A i \in 1..Len(rs) : \A j \in i..Len(rs) : KeyLeq(SortKey(rs[i]), SortKey(rs[j]))
            /\ \A r \in Range(rs) \cup Range(Concatenated) :
                  SelectSeq(rs, LAMBDA x : SortKey(x) = SortKey(r))
                      = SelectSeq(Concatenated, LAMBDA x : SortKey(x) = SortKey(r))

C5_Witness ==
    /\ Succeeded
    /\ N >= 2
    /\ \E i, j \in 1..Len(analyze_result.results) :
          /\ i < j
          /\ SortKey(analyze_result.results[i]) = SortKey(analyze_result.results[j])
          /\ analyze_result.results[i] # analyze_result.results[j]
    /\ Concatenated # analyze_result.results


(***************************************************************************)
(* Baseline: claims.                                                       *)
(***************************************************************************)
BaselineLocations(r) ==
    IF r.loc = None THEN <<>>
    ELSE [i \in 1..Len(r.loc[1]) |-> BaselineLocationFrom(r.loc[1][i])]

Count(s, x) == Cardinality({i \in 1..Len(s) : s[i] = x})

SameBag(s, t) ==
    /\ Len(s) = Len(t)
    /\ \A i \in 1..Len(s) : Count(s, s[i]) = Count(t, s[i])

\* Two results have the same canonical entry: the same rule id text, the
\* same message text and the same locations up to their order.
CanonicallyEqual(r, q) ==
    /\ UnwrapOrEmpty(r.rule_id) = UnwrapOrEmpty(q.rule_id)
    /\ UnwrapOrEmpty(r.msg) = UnwrapOrEmpty(q.msg)
    /\ SameBag(BaselineLocations(r), BaselineLocations(q))

CapturedAndFiltered == bl_pc = "filtered" /\ bl_origin = "capture"

\* C6: Baseline::capture(R1).filter(R2) returns exactly the results of R2
\* whose canonical entry (rule id, message text, sorted locations) differs
\* from that of every result of R1, unchanged and in their order in R2; and
\* capture(R).filter(R) is empty.
C6_CaptureThenFilter ==
    CapturedAndFiltered =>
        /\ bl_filtered = SelectSeq(bl_input, LAMBDA r :
                \A k \in 1..Len(bl_captured) : ~CanonicallyEqual(r, bl_captured[k]))
        /\ (bl_input = bl_captured => bl_filtered = <<>>)

\* Two results captured in descending order of their entries; of the two
\* results filtered, one is suppressed by a captured result that is not
\* equal to it, and one is kept.
C6_Witness ==
    /\ CapturedAndFiltered
    /\ Len(bl_captured) = 2
    /\ LexLess(EntryKey(BaselineEntryFrom(bl_captured[2])),
               EntryKey(BaselineEntryFrom(bl_captured[1])))
    /\ Len(bl_input) = 2
    /\ Len(bl_filtered) = 1
    /\ \E i \in 1..2 :
          /\ bl_input[i] \notin Range(bl_captured)
          /\ bl_input[i] \notin Range(bl_filtered)

SortLocations(e) ==
    [e EXCEPT !.locations = StableSortByKey(e.locations,
                                [i \in 1..Len(e.locations) |-> LocationKey(e.locations[i])])]

\* The sorted, deduplicated form of a baseline file: the locations of each
\* finding sorted, the findings sorted, each finding once.
SortedForm(findings) ==
    LET inner == [i \in 1..Len(findings) |-> SortLocations(findings[i])]
    IN  DedupEntries(StableSortByKey(inner, [i \in 1..Len(inner) |-> EntryKey(inner[i])]))

LoadedAndFiltered == bl_pc = "filtered" /\ bl_origin = "load"

\* C7: the baseline that load_baseline returns for a well-formed file, with
\* findings in any order and with duplicates and with the locations of a
\* finding in any order, suppresses exactly the results that the sorted,
\* deduplicated form of the file suppresses.
C7_LoadSuppressesAsSortedForm ==
    LoadedAndFiltered => bl_filtered = Filter(SortedForm(bl_file.findings), bl_input)

(***************************************************************************)
(* Scan driver: claims.                                                    *)
(***************************************************************************)
BothRunsWritten == \A r \in Runs : sc_exit[r] = "ok" /\ sc_output[r] # None

\* C3: two complete scan runs over the same inputs with the same arguments
\* write the same bytes: the whole serialized document, the invocation and
\* its property bag included.
C3_ByteIdenticalSarif == BothRunsWritten => sc_output[1] = sc_output[2]

RunEnded == sc_pc = "end"

\* Nothing but the baseline file can make the run fail.
OnlyBaselineMayFail ==
    /\ sc_input.analysis.kind = "ok"
    /\ sc_input.fault = "none"
    /\ new_with_allowed_rule_ids(sc_input.selected_rule_ids) = "ok"

\* C8: when the baseline file does not exist, load_baseline returns no
\* baseline and no error, and the run writes every result of the analysis;
\* when the file is there and is not valid baseline JSON, load_baseline
\* returns an error, the run fails and writes nothing.
C8_MissingOrCorruptBaseline ==
    (RunEnded /\ OnlyBaselineMayFail) =>
        /\ sc_input.file.kind = "missing" =>
              /\ sc_loaded = "none"
              /\ sc_exit[sc_run] = "ok"
              /\ sc_output[sc_run] # None
              /\ sc_output[sc_run][1].results = sc_input.analysis.results
        /\ sc_input.file.kind = "corrupt" =>
              /\ sc_loaded = "error"
              /\ sc_exit[sc_run] = "err"
              /\ sc_output[sc_run] = None

\* A run without a baseline file that wrote two results.
C8_Witness ==
    /\ RunEnded
    /\ sc_input.file.kind = "missing"
    /\ sc_loaded = "none"
    /\ sc_output[sc_run] # None
    /\ Len(sc_output[sc_run][1].results) = 2

(***************************************************************************)
(* Stack machine: claims.                                                  *)
(***************************************************************************)
DepthCapped == sm_config.max_stack_depth # None
D == sm_config.max_stack_depth[1]

WithinDepth == DepthCapped => Len(sm_stack) <= D

TopIsPushed ==
    sm_last.op = "push" => (sm_stack # <<>> /\ sm_stack[Len(sm_stack)] = sm_last.value)

\* A step that is a push that returned, on a machine with a depth cap.
PushAtCap ==
    /\ DepthCapped
    /\ sm_last'.op = "push"
    /\ Len(sm_stack) >= D

SecondPass == canonicalize_symbolic_ids_u32(sm_stack, sm_locals, sm_last.extra)

\* C10: a second canonicalize_symbolic_ids_u32 on a state that was just
\* canonicalized changes neither the stack nor the locals, and the mapping
\* it returns takes every id to itself.
C10_CanonicalizeIdempotent ==
    sm_last.op = "canonicalize" =>
        LET second == SecondPass
        IN  /\ second.stack = sm_stack
            /\ second.locals = sm_locals
            /\ \A id \in DOMAIN second.mapping : second.mapping[id] = id

\* A canonicalized state with ids on the stack, in a local and among the
\* extra ids of the caller.
C10_Witness ==
    /\ sm_last.op = "canonicalize"
    /\ sm_stack # <<>>
    /\ sm_stack[1] = Symbol(0)
    /\ \E i \in DOMAIN sm_locals : sm_locals[i] = Symbol(1)
    /\ 2 \in sm_last.extra

\* A one-to-one renaming of the symbolic ids.
Renamings == {f \in [SymbolIds -> SymbolIds] : \A a, b \in SymbolIds : f[a] = f[b] => a = b}

Rename(value, f) == IF value.tag = "Symbol" THEN Symbol(f[value.id]) ELSE value
RenameStack(stack, f) == [k \in 1..Len(stack) |-> Rename(stack[k], f)]
RenameLocals(locals, f) == [i \in DOMAIN locals |-> Rename(locals[i], f)]

\* The ids in the order of the walk: the stack from the bottom to the top,
\* the locals by ascending index, the extra ids in ascending order.
Walk(stack, locals, extra_ids) ==
    LET indices == AscendingIds(DOMAIN locals)
        values == stack \o [k \in 1..Len(indices) |-> locals[indices[k]]]
        carried == SelectSeq(values, LAMBDA v : v.tag = "Symbol")
    IN  [k \in 1..Len(carried) |-> carried[k].id] \o AscendingIds(extra_ids)

\* The number of different ids that the walk meets before it meets id.
FirstEncounterNumber(walk, id) ==
    LET first == CHOOSE k \in 1..Len(walk) :
                     walk[k] = id /\ \A j \in 1..(k - 1) : walk[j] # id
    IN  Cardinality({walk[j] : j \in 1..(first - 1)})

FirstEncounterMapping(walk) == [id \in Range(walk) |-> FirstEncounterNumber(walk, id)]

\* The canonicalization of the machine as it is, without extra ids.
Here == canonicalize_symbolic_ids_u32(sm_stack, sm_locals, {})

\* Every renaming of the machine is canonicalized to the same stack and locals.
RenamingInvariant ==
    LET here == Here
    IN  \A f \in Renamings :
            LET there == canonicalize_symbolic_ids_u32(RenameStack(sm_stack, f),
                             RenameLocals(sm_locals, f), {})
            IN  /\ there.stack = here.stack
                /\ there.locals = here.locals

\* Whatever the extra ids, the mapping numbers the ids in the order of the
\* walk, the stack and the locals are rewritten by it, and the extra ids,
\* which come last, have no part in that.
AssignedInWalkOrder ==
    LET here == Here
    IN  \A extra_ids \in ExtraIdSets :
            LET done == canonicalize_symbolic_ids_u32(sm_stack, sm_locals, extra_ids)
            IN  /\ done.mapping = FirstEncounterMapping(Walk(sm_stack, sm_locals, extra_ids))
                /\ done.stack = RenameStack(sm_stack, done.mapping)
                /\ done.locals = RenameLocals(sm_locals, done.mapping)
                /\ done.stack = here.stack
                /\ done.locals = here.locals

\* After a canonicalization the ids of the machine are their own numbers.
Canonical ==
    LET walk == Walk(sm_stack, sm_locals, {})
    IN  \A id \in Range(walk) : FirstEncounterNumber(walk, id) = id

\* C11: two states that differ by a one-to-one renaming of the ids of their
\* stack and local values are equal after canonicalize_symbolic_ids_u32, and
\* the ids it assigns are 0,1,2,... in the order of the first encounter on
\* the walk over the stack from the bottom, the locals by index, the extra ids.
C11_RenamingAndWalkOrder ==
    /\ RenamingInvariant
    /\ AssignedInWalkOrder
    /\ sm_last.op = "canonicalize" => Canonical

\* A canonicalized state whose local of the lower index holds the second id
\* and whose stack holds the first id twice and then a third one.
C11_Witness ==
    /\ sm_last.op = "canonicalize"
    /\ sm_stack = <<Symbol(0), Symbol(0)>>
    /\ 0 \in DOMAIN sm_locals
    /\ sm_locals[0] = Symbol(1)
    /\ sm_last.extra = {1, 2}

Capped == sm_config.max_symbolic_identities # None
M == sm_config.max_symbolic_identities[1]
Live == LiveIds(sm_stack, sm_locals)

\* The min(m, n) greatest of the n ids of a set.
Greatest(ids, m) ==
    CHOOSE kept \in SUBSET ids :
        /\ Cardinality(kept) = IF m < Cardinality(ids) THEN m ELSE Cardinality(ids)
        /\ \A a \in kept, b \in ids \ kept : a > b

\* A value after the cap: unknown when its id is not kept, else as it was.
AfterCap(value, kept) ==
    IF value.tag = "Symbol" /\ value.id \notin kept THEN Unknown ELSE value

EnforceCapStep == sm_last'.op = "enforce_symbolic_identity_cap_u32"

EnforceCapEffect ==
    LET returned == enforce_symbolic_identity_cap_u32(sm_stack, sm_locals, sm_config).tracked
    IN  IF Capped
        THEN LET kept == Greatest(Live, M)
             IN  /\ returned = Some(kept)
                 /\ sm_last'.extra = kept
                 /\ sm_stack' = [k \in 1..Len(sm_stack) |-> AfterCap(sm_stack[k], kept)]
                 /\ sm_locals' = [i \in DOMAIN sm_locals |-> AfterCap(sm_locals[i], kept)]
        ELSE /\ returned = None
             /\ sm_stack' = sm_stack
             /\ sm_locals' = sm_locals

AtMostMRemain ==
    (sm_last.op = "enforce_symbolic_identity_cap_u32" /\ Capped) =>
        (Cardinality(Live) <= M /\ Live = sm_last.extra)

\* C12: with max_symbolic_identities = M, enforce_symbolic_identity_cap_u32
\* returns the min(M, n) greatest of the n ids live in the stack and the
\* locals, makes every value with another id unknown and leaves the other
\* values as they are, so that at most M ids remain; without a cap it
\* returns nothing and changes nothing.
C12_IdentityCap ==
    /\ []AtMostMRemain
    /\ [][EnforceCapStep => EnforceCapEffect]_vars

\* A cap of one that kept the greater id in a local and made the stack value
\* with the smaller id unknown.
C12_Witness ==
    /\ sm_last.op = "enforce_symbolic_identity_cap_u32"
    /\ Capped
    /\ M = 1
    /\ sm_last.extra = {2}
    /\ sm_stack = <<Unknown>>
    /\ \E i \in DOMAIN sm_locals : sm_locals[i] = Symbol(2)

LocalsCapped == sm_config.max_locals # None
LocalsCap == sm_config.max_locals[1]

\* What slot i of the locals holds: nothing (the empty sequence) or a value.
Slot(locals, i) == IF i \in DOMAIN locals THEN <<locals[i]>> ELSE <<>>

\* load_local returned the default value for an index at or over the cap,
\* and what the slot holds, or the default value for an empty slot, under it.
LoadReturnsSlot ==
    (sm_last.op = "load_local" /\ LocalsCapped) =>
        IF LastIndex >= LocalsCap
        THEN sm_last.value = default_value
        ELSE sm_last.value = IF Slot(sm_locals, LastIndex) = <<>> THEN default_value
                             ELSE Slot(sm_locals, LastIndex)[1]

\* No slot at or over the cap is ever filled.
NothingOverCap == LocalsCapped => \A i \in DOMAIN sm_locals : i < LocalsCap

\* A store_local(i, v): at or over the cap the machine stays as it is; under
\* it slot i holds v, every other slot and the stack stay as they are.
StoreEffect ==
    LET i == CHOOSE index \in sm_last'.extra : TRUE
    IN  (sm_last'.op = "store_local" /\ LocalsCapped) =>
            /\ sm_stack' = sm_stack
            /\ sm_config' = sm_config
            /\ IF i >= LocalsCap
               THEN sm_locals' = sm_locals
               ELSE /\ Slot(sm_locals', i) = <<sm_last'.value>>
                    /\ \A j \in (DOMAIN sm_locals \cup DOMAIN sm_locals' \cup LocalIndices) \ {i} :
                          Slot(sm_locals', j) = Slot(sm_locals, j)

\* Between two stores the slots keep what they hold: push, pop, pop_n and
\* load_local leave the locals as they are.
OtherCallsKeepLocals ==
    sm_last'.op \in {"push", "panic", "pop", "pop_n", "load_local"} => sm_locals' = sm_locals

\* C13: with max_locals = M, store_local(i, v) with i at or over the cap
\* leaves the whole machine as it is and load_local(i) returns the default
\* value; under the cap load_local(i) returns the value of the most recent
\* store_local(i, .), the default value when there was none, and a store
\* changes no other slot and not the stack.
C13_LocalsCap ==
    /\ [](LoadReturnsSlot /\ NothingOverCap)
    /\ [][StoreEffect /\ OtherCallsKeepLocals]_vars

\* Both slots are under the cap and hold different values stored one after
\* the other, the stack is not empty, and load_local returned the first one.
C13_Witness ==
    /\ LocalsCapped
    /\ LocalsCap = MaxLocals + 1
    /\ sm_stack # <<>>
    /\ sm_last.op = "load_local"
    /\ LastIndex = 0
    /\ sm_last.value = Symbol(1)
    /\ MaxLocals \in DOMAIN sm_locals
    /\ sm_locals[MaxLocals] = Symbol(2)

(***************************************************************************)
(* Default opcode semantics: claims.                                       *)
(***************************************************************************)
\* Every conditional branch of the Java virtual machine.
ConditionalBranches ==
    {"IFEQ", "IFNE", "IFLT", "IFGE", "IFGT", "IFLE", "IF_ICMPEQ", "IF_ICMPNE",
     "IF_ICMPLT", "IF_ICMPGE", "IF_ICMPGT", "IF_ICMPLE", "IF_ACMPEQ", "IF_ACMPNE",
     "IFNULL", "IFNONNULL"}

\* aconst_null, iconst_*, bipush, sipush, ldc*, aload*, astore*, iload*,
\* pop, pop2, dup, the conditional branches and the two switches.
CoverageList ==
    {"ACONST_NULL", "ICONST_M1", "ICONST_0", "ICONST_1", "ICONST_2", "ICONST_3",
     "ICONST_4", "ICONST_5", "BIPUSH", "SIPUSH", "LDC", "LDC_W", "LDC2_W",
     "ALOAD", "ALOAD_0", "ALOAD_1", "ALOAD_2", "ALOAD_3",
     "ASTORE", "ASTORE_0", "ASTORE_1", "ASTORE_2", "ASTORE_3",
     "ILOAD", "ILOAD_0", "ILOAD_1", "ILOAD_2", "ILOAD_3",
     "POP", "POP2", "DUP", "TABLESWITCH", "LOOKUPSWITCH"} \cup ConditionalBranches

Applied == ap_last.outcome = "Applied"
NotHandled == ap_last.outcome = "NotHandled"

\* C14: apply_default_semantics returns Applied for exactly the opcodes of
\* the coverage list and NotHandled for every other opcode.
C14_AppliedExactlyForCoverage ==
    ap_last.opcode # "" =>
        IF ap_last.opcode \in CoverageList THEN Applied ELSE NotHandled

\* Outside NEW and the two reference comparisons the outcome is the one
\* the coverage list gives.
C14_OutsideNewAndAcmp ==
    (ap_last.opcode # "" /\ ap_last.opcode \notin {"NEW", "IF_ACMPEQ", "IF_ACMPNE"}) =>
        IF ap_last.opcode \in CoverageList THEN Applied ELSE NotHandled

(***************************************************************************)
(* Classpath index: claims.                                                *)
(***************************************************************************)
Resolved == cp_result # CpPending
Permissive == cp_allow
Strict == ~cp_allow

\* The positions of the classes of that name in the class list.
ClassesNamed(name) == {k \in 1..Len(cp_classes) : cp_classes[k].name = name}
ScannedNames == {cp_classes[k].name : k \in 1..Len(cp_classes)}
ArtifactsOf(name) == {cp_classes[k].artifact_index : k \in ClassesNamed(name)}
UriOf(index) == artifact_uri(cp_artifacts, index)

\* C15: in permissive mode resolve_classpath succeeds, and a class name that
\* occurs in more than one artifact is mapped to one of its artifacts whose
\* URI is the least of the URIs of the artifacts that contain the class.
C15_PermissivePicksLeastUri ==
    (Resolved /\ Permissive) =>
        /\ cp_result.ok
        /\ DOMAIN cp_result.classes = ScannedNames
        /\ \A name \in ScannedNames :
              Cardinality(ArtifactsOf(name)) > 1 =>
                  /\ cp_result.classes[name] \in ArtifactsOf(name)
                  /\ \A index \in ArtifactsOf(name) :
                        UriOf(cp_result.classes[name]) <= UriOf(index)

\* The class is in both artifacts, the artifact scanned first has the
\* greater URI, and the index maps the class to the other one.
C15_Witness ==
    /\ Resolved
    /\ Permissive
    /\ cp_classes = <<Class(1, 0), Class(2, 0), Class(1, 1)>>
    /\ cp_artifacts = <<Some(2), Some(1)>>
    /\ cp_result.ok
    /\ cp_result.classes[1] = 1

\* The class names with more than one class in the class list.
DuplicatedNames == {name \in ScannedNames : Cardinality(ClassesNamed(name)) > 1}

\* The error names the class and each of the artifacts of its classes.
Listed(name) ==
    \E e \in 1..Len(cp_result.duplicates) :
        /\ cp_result.duplicates[e].name = name
        /\ \A k \in ClassesNamed(name) :
              \E a \in 1..Len(cp_result.duplicates[e].artifacts) :
                  /\ cp_result.duplicates[e].artifacts[a].index = cp_classes[k].artifact_index
                  /\ cp_result.duplicates[e].artifacts[a].uri = UriOf(cp_classes[k].artifact_index)

\* C16: in strict mode resolve_classpath returns an error and no index when
\* a class name occurs more than once, and the error names every
\* duplicated class name with every artifact it appears in; without
\* duplicates it succeeds and maps each class name to the artifact index
\* of its class.
C16_StrictRejectsDuplicates ==
    (Resolved /\ Strict) =>
        IF DuplicatedNames # {}
        THEN /\ ~cp_result.ok
             /\ cp_result.classes = <<>>
             /\ \A name \in DuplicatedNames : Listed(name)
        ELSE /\ cp_result.ok
             /\ DOMAIN cp_result.classes = ScannedNames
             /\ \A k \in 1..Len(cp_classes) :
                   cp_result.classes[cp_classes[k].name] = cp_classes[k].artifact_index

\* Two class names are duplicated, one over two artifacts, and the error
\* lists both.
C16_Witness ==
    /\ Resolved
    /\ Strict
    /\ cp_classes = <<Class(2, 0), Class(1, 0), Class(2, 1), Class(1, 0)>>
    /\ cp_artifacts = <<Some(1), Some(2)>>
    /\ ~cp_result.ok
    /\ Len(cp_result.duplicates) = 2

Orders(n) == {p \in [1..n -> 1..n] : \A a, b \in 1..n : p[a] = p[b] => a = b}
Permuted(classes, p) == [k \in 1..Len(classes) |-> classes[p[k]]]

\* C17: in permissive mode the artifact index chosen for a duplicated
\* class name does not depend on the order of the class list: every
\* permutation of the class list yields the same index.
C17_IndependentOfClassOrder ==
    (Resolved /\ Permissive) =>
        \A p \in Orders(Len(cp_classes)) :
            resolve_classpath(Permuted(cp_classes, p), cp_artifacts, cp_allow).classes
                = cp_result.classes

\* The URIs of the artifacts of the table are there and differ.
DistinctUris ==
    \A a, b \in 1..Len(cp_artifacts) :
        /\ cp_artifacts[a] # None
        /\ a # b => cp_artifacts[a] # cp_artifacts[b]

\* With an artifact table that holds every artifact index of the class
\* list, under URIs that differ, the index is the same for every order.
C17_IndependentUnderDistinctUris ==
    (/\ Resolved
     /\ Permissive
     /\ DistinctUris
     /\ \A k \in 1..Len(cp_classes) : cp_classes[k].artifact_index < Len(cp_artifacts)) =>
        \A p \in Orders(Len(cp_classes)) :
            resolve_classpath(Permuted(cp_classes, p), cp_artifacts, cp_allow).classes
                = cp_result.classes

(***************************************************************************)
(* Analysis targets: claims.                                               *)
(***************************************************************************)
Tagged == {a \in 0..(Len(ac_artifacts) - 1) : ac_artifacts[a + 1].target}

ParentOf(a) ==
    IF a \in 0..(Len(ac_artifacts) - 1) /\ ac_artifacts[a + 1].parent_index # None
    THEN {ac_artifacts[a + 1].parent_index[1]}
    ELSE {}

\* The artifact and its ancestors along the parent links.
RECURSIVE UpFrom(_)
UpFrom(S) ==
    LET next == S \cup UNION {ParentOf(a) : a \in S}
    IN  IF next = S THEN S ELSE UpFrom(next)

\* No artifact is tagged, or the class's artifact or one of its ancestors is.
InScope(class) == Tagged = {} \/ UpFrom({class.artifact_index}) \cap Tagged # {}

\* C18: no rule emits a finding against a classpath-only class: every
\* finding is of a class for which is_analysis_target_class holds, and
\* that holds exactly when no artifact carries the analysisTarget role or
\* the class's artifact or one of its ancestors along the parent links does.
C18_FindingsOnAnalysisTargets ==
    /\ \A k \in 1..Len(ac_classes) :
          (is_analysis_target_class(ac_artifacts, ac_classes[k]) = "true") <=> InScope(ac_classes[k])
    /\ \A r \in 1..Len(ac_run.results) :
          /\ is_analysis_target_class(ac_artifacts, ac_classes[ac_run.results[r].class]) = "true"
          /\ InScope(ac_classes[ac_run.results[r].class])

\* The rule ran over two classes its code reports: one of an artifact of
\* the classpath, one of an artifact whose parent is the analysis target;
\* its one finding is of the second.
C18_Witness ==
    /\ ac_run.pc = "done"
    /\ ac_artifacts = <<Artifact(FALSE, None), Artifact(TRUE, None), Artifact(FALSE, Some(1))>>
    /\ ac_classes = <<ContextClass(0, TRUE), ContextClass(2, TRUE)>>
    /\ ac_run.results = <<[class |-> 2]>>

(***************************************************************************)
(* Scan driver: failures.                                                  *)
(***************************************************************************)
\* An unknown rule id in the selection, a circular @file reference, an
\* empty @file reference.
ConfigurationErrors ==
    {"unknown_rule", "input_circular_file", "rules_circular_file", "input_empty_file",
     "rules_empty_file"}

\* C19: a configuration error makes the run fail before any input artifact
\* is scanned: no run calls scan_inputs and then fails with a
\* configuration error.
C19_ConfigurationErrorsBeforeScan ==
    \A r \in Runs : ~(sc_scanned[r] /\ sc_error[r] \in ConfigurationErrors)

\* A circular or empty @file reference, in --input, --classpath or --rules,
\* ends the run before scan_inputs is called.
C19_FileReferencesBeforeScan ==
    \A r \in Runs : ~(sc_scanned[r] /\ sc_error[r] \in ConfigurationErrors \ {"unknown_rule"})

\* C20: a scan run that ends in a fatal error exits with a nonzero code
\* and has written no byte of the document to the output.
C20_NoSarifOnFatalError ==
    \A r \in Runs :
        sc_exit[r] = "err" => (ExitCode(sc_exit[r]) # 0 /\ sc_bytes[r] = "none")

\* A run that fails anywhere before the document is written exits with a
\* nonzero code and has written nothing.
C20_NothingWrittenBeforeTheWrite ==
    \A r \in Runs :
        (sc_exit[r] = "err" /\ sc_error[r] \notin {"serialize", "newline"}) =>
            (ExitCode(sc_exit[r]) # 0 /\ sc_bytes[r] = "none" /\ sc_output[r] = None)

(***************************************************************************)
(* Stack machine: failures.                                                *)
(***************************************************************************)
\* C28: StackMachine::push completes without failure for every
\* configuration, max_stack_depth = 0 and an empty stack included: no push
\* panics.
C28_PushNeverFails == sm_last.op # "panic"

\* With a depth cap of one or more, or none, no push panics.
C28_PushNeverFailsAtCapOfOneOrMore ==
    (sm_config.max_stack_depth = None \/ sm_config.max_stack_depth[1] >= 1) => sm_last.op # "panic"

(***************************************************************************)
(* Analysis targets: termination.                                          *)
(***************************************************************************)
\* C27: is_analysis_target_class terminates for every artifact table, one
\* whose parent links form a cycle without an analysis target on it
\* included: the call returns for every class of the context, and no rule
\* hangs in it.
C27_TargetTestTerminates ==
    ac_run.pc # "idle" =>
        /\ ac_run.pc = "done"
        /\ \A k \in 1..Len(ac_classes) :
              is_analysis_target_class(ac_artifacts, ac_classes[k]) \in {"true", "false"}

\* Every artifact's parent has a smaller index than the artifact.
ParentsComeFirst ==
    \A a \in 1..Len(ac_artifacts) :
        ac_artifacts[a].parent_index # None => ac_artifacts[a].parent_index[1] < a - 1

\* When every parent comes before its child in the table the call returns.
C27_TerminatesWhenParentsComeFirst ==
    (ParentsComeFirst /\ ac_run.pc # "idle") =>
        /\ ac_run.pc = "done"
        /\ \A k \in 1..Len(ac_classes) :
              is_analysis_target_class(ac_artifacts, ac_classes[k]) \in {"true", "false"}

(***************************************************************************)
(* Default opcode semantics: the effect on the machine.                    *)
(***************************************************************************)
\* The slot an opcode names: the operand byte (0 when there is none) for
\* aload and astore, the number in its name for the others.
NamedSlot(opcode, operand) ==
    CASE opcode \in {"ALOAD", "ASTORE"} -> (IF operand = None THEN 0 ELSE operand[1])
      [] opcode \in {"ALOAD_0", "ASTORE_0"} -> 0
      [] opcode \in {"ALOAD_1", "ASTORE_1"} -> 1
      [] opcode \in {"ALOAD_2", "ASTORE_2"} -> 2
      [] OTHER -> 3

PushesValue(value) ==
    /\ sm_stack' = push(sm_stack, sm_config, value).stack
    /\ sm_locals' = sm_locals

\* The effect of the row of the table that the opcode has.
TableEffect(opcode) ==
    LET effect == decode(opcode)
        n == NamedSlot(opcode, ap_last'.operand)
    IN  CASE effect.kind = "PushUnknown" -> PushesValue(unknown_value)
          [] effect.kind = "PushScalar" -> PushesValue(scalar_value)
          [] effect.kind = "LoadLocal" -> PushesValue(load_local(sm_locals, sm_config, n))
          [] effect.kind = "StoreLocal" ->
                /\ sm_stack' = pop(sm_stack).stack
                /\ sm_locals' = store_local(sm_locals, sm_config, n, pop(sm_stack).value)
          [] effect.kind = "Pop" ->
                /\ sm_stack' = pop_n(sm_stack, effect.n)
                /\ sm_locals' = sm_locals
          [] effect.kind = "Dup" ->
                IF sm_stack = <<>> THEN sm_stack' = sm_stack /\ sm_locals' = sm_locals
                ELSE PushesValue(sm_stack[Len(sm_stack)])
          [] OTHER -> FALSE

\* A step that is an apply_default_semantics has the effect of the row of
\* its opcode, and none when there is no row.
AppliedEffect ==
    ap_last'.opcode # "" =>
        /\ sm_config' = sm_config
        /\ IF ap_last'.outcome = "Applied"
           THEN TableEffect(ap_last'.opcode)
           ELSE sm_stack' = sm_stack /\ sm_locals' = sm_locals

\* C29: when apply_default_semantics returns Applied the machine is the
\* machine before with the table effect of the opcode applied (push the
\* unknown value, push the scalar value, push load_local(n), pop into slot
\* n, discard the top k values, push a copy of the top value); when it
\* returns NotHandled the stack and the locals are as before.
C29_TableEffectOnly == [][AppliedEffect]_vars

\* An astore took the top of a stack of two into the slot its operand names.
C29_Witness ==
    /\ ap_last.opcode = "ASTORE"
    /\ ap_last.operand = Some(0)
    /\ ap_last.outcome = "Applied"
    /\ sm_stack = <<unknown_value>>
    /\ 0 \in DOMAIN sm_locals
    /\ sm_locals[0] = scalar_value

(***************************************************************************)
(* Rule catalog: claims.                                                   *)
(***************************************************************************)
UpperSnakeBytes == Range(Digits) \cup Range(UpperLetters) \cup {"_"}

\* UPPER_SNAKE_CASE: capital letters and digits, joined by underscores.
UpperSnakeCase(id) ==
    /\ id # <<>>
    /\ \A k \in 1..Len(id) : id[k] \in UpperSnakeBytes
    /\ id[1] # "_" /\ id[Len(id)] # "_"

UniqueIds ==
    \A i, j \in 1..Len(cat_rules) : cat_rules[i] = cat_rules[j] => i = j

\* C21: every rule id in the catalog is written in UPPER_SNAKE_CASE and no
\* two rules in the catalog have the same id.
C21_IdsUpperSnakeAndUnique ==
    /\ \A i \in 1..Len(cat_rules) : UpperSnakeCase(cat_rules[i])
    /\ UniqueIds

\* What does hold of the catalog: the ids are unique, they come out of
\* Engine::new in ascending byte order, and every id but the one of the local
\* complexity guard is written in UPPER_SNAKE_CASE.
C21_UniqueAndUpperSnakeButOne ==
    /\ UniqueIds
    /\ \A i \in 1..Len(cat_rules) : cat_rules[i] # RULE_ID => UpperSnakeCase(cat_rules[i])
    /\ cat_pc = "sorted" =>
        /\ Len(cat_rules) = Len(registered_rule_ids)
        /\ cat_rules[Len(cat_rules)] = RULE_ID
        /\ \A i \in 1..(Len(cat_rules) - 1) :
            LexLess(IdKey(cat_rules[i]), IdKey(cat_rules[i + 1]))

(***************************************************************************)
(* Local complexity guard: claims.                                         *)
(***************************************************************************)
\* The branches an instruction stands for, as a number without a width.
Branches(instruction) ==
    CASE instruction.kind = "tableswitch" -> instruction.high - instruction.low + 1
      [] instruction.kind = "lookupswitch" -> instruction.npairs
      [] instruction.kind = "conditional" -> 1
      [] OTHER -> 0

RECURSIVE SumOfBranches(_)
SumOfBranches(instructions) ==
    IF instructions = <<>> THEN 0
    ELSE Branches(Head(instructions)) + SumOfBranches(Tail(instructions))

\* A switch whose number of branches is no count: negative, or past i32.
BadSwitch(instruction) ==
    /\ instruction.kind \in {"tableswitch", "lookupswitch"}
    /\ Branches(instruction) < 0 \/ Branches(instruction) > IMax

HasBadSwitch ==
    \E k \in 1..Len(cx_method.instructions) : BadSwitch(cx_method.instructions[k])

HandlersWithCatchType ==
    Cardinality({h \in 1..Len(cx_method.exception_handlers) :
                    cx_method.exception_handlers[h] # None})

\* 1 + conditional branches + non-default switch branches + catching handlers
LocalComplexity == 1 + SumOfBranches(cx_method.instructions) + HandlersWithCatchType

C30_AtThreshold ==
    /\ cx_result.status = "ok"
    /\ cx_outcome # "pending"
    /\ cx_result.value = 10 \/ cx_result.value = 11

(***************************************************************************)
(* Lock rule: claims.                                                      *)
(***************************************************************************)
LockBlocks == DOMAIN lk_method.blocks

NoUnlockFrom(b, i) == \A k \in i..Len(lk_method.blocks[b]) : lk_method.blocks[b][k] # "unlock"

Edge(b, c) == <<start_offset(b), start_offset(c)>> \in lk_method.edges

MethodExit(b) == \A c \in LockBlocks : ~Edge(b, c)

\* A control-flow path from the instruction after the lock call at index i
\* (from 1) of block b to a method exit, with no unlock() on it.
ExitPathWithoutUnlock(b, i) ==
    \E path \in SeqsUpTo(LockBlocks, MaxBlocks) :
        LET blocks == <<b>> \o path
        IN  /\ NoUnlockFrom(b, i + 1)
            /\ \A k \in 1..Len(path) : NoUnlockFrom(path[k], 1)
            /\ \A k \in 1..(Len(blocks) - 1) : Edge(blocks[k], blocks[k + 1])
            /\ MethodExit(blocks[Len(blocks)])

\* The offsets of the lock calls with such a path.
LockCalls ==
    {call \in LockBlocks \X (1..BlockStride) :
        /\ call[2] \in DOMAIN lk_method.blocks[call[1]]
        /\ lk_method.blocks[call[1]][call[2]] = "lock"}

UnreleasedLockOffsets ==
    {start_offset(call[1]) + call[2] - 1 :
        call \in {c \in LockCalls : ExitPathWithoutUnlock(c[1], c[2])}}

\* C23: for each lock() call of a method the rule emits exactly one finding
\* if some path from the instruction after the call to a method exit has no
\* unlock() on it, and none if every such path has one; and the rule comes to
\* its end on every control-flow graph, one with cycles included.
C23_OneFindingPerUnreleasedLock ==
    /\ [](lk_pc = "done" => lk_results = AscendingIds(UnreleasedLockOffsets))
    /\ <>(lk_pc = "done")

\* A block that locks, loops back to itself past its own unlock() and leaves
\* for an exit block: the lock call is reported once.
C23_Witness ==
    /\ lk_method = [blocks |-> <<<<"unlock", "lock">>, <<"other">>>>,
                    edges |-> {<<0, 0>>, <<0, 2>>}]
    /\ lk_pc = "done"
    /\ lk_results = <<1>>

\* Two blocks in a cycle, each with a lock call and neither an exit: the rule
\* ends without a finding.
C23_WitnessCycle ==
    /\ lk_method = [blocks |-> <<<<"lock">>, <<"lock">>>>, edges |-> {<<0, 2>>, <<2, 0>>}]
    /\ lk_pc = "done"
    /\ lk_results = <<>>

(***************************************************************************)
(* Exception cause rule: claims.                                           *)
(***************************************************************************)
HxDone == hx_pc = "done"

\* The states the worklist holds: queued or visited.
HeldStates == {hx_queue[k].state : k \in 1..Len(hx_queue)} \cup hx_visited

\* A state the worklist holds is within the caps of the machine and at an
\* instruction of a block of the method, or at the block's end.
WithinCaps(state) ==
    /\ Len(state.machine.stack) <= MAX_TRACKED_STACK_DEPTH
    /\ state.block_start \in DOMAIN hx_method.blocks
    /\ state.instruction_index <= Len(hx_method.blocks[state.block_start])

\* A state in the visited set is canonical: it carries no more allocations
\* than are tracked, under the identities 0, 1, 2, ...
CanonicalState(state) ==
    LET live == LiveIds(state.machine.stack, state.machine.locals)
                    \cup state.preserved_allocations
    IN  /\ Cardinality(live) <= MAX_TRACKED_ALLOCATIONS
        /\ live = 0..(Cardinality(live) - 1)

LongestBlock ==
    CHOOSE n \in {Len(hx_method.blocks[b]) : b \in DOMAIN hx_method.blocks} :
        \A b \in DOMAIN hx_method.blocks : Len(hx_method.blocks[b]) <= n

\* C22: the exploration of a catch handler comes to its end on every method,
\* a handler that allocates on every turn of a loop included.  The states
\* the worklist holds stay within the caps; the states it inserts into the
\* visited set are canonical, and each of them is enqueued once; the turns
\* it takes are those of the seed and of the states it entered, one for each
\* instruction of the block and one for its end; and while states are queued
\* it is not done.  The turn count makes every turn a new state, so that the
\* states being finitely many is the exploration being finite.
C22_HandlerExplorationTerminates ==
    /\ \A state \in HeldStates : WithinCaps(state)
    /\ \A state \in hx_visited : CanonicalState(state)
    /\ \A i, j \in 1..Len(hx_entered) : hx_entered[i] = hx_entered[j] => i = j
    /\ Range(hx_entered) = hx_visited
    /\ hx_last.turns <= (1 + Len(hx_entered)) * (LongestBlock + 1)
    /\ hx_pc \in {"start", "handlers", "exploring", "done"}
    /\ HxDone => hx_queue = <<>> /\ hx_handlers = <<>>

\* The handler that allocates on every turn of its loop has been explored:
\* the loop block was entered more than once, each time in another state.
C22_Witness ==
    /\ hx_method = AllocatesInLoop
    /\ HxDone
    /\ Cardinality({state \in hx_visited : state.block_start = 11}) > 1
    /\ hx_results = <<<<10, 18>>>>

\* The instructions of its block that a state has behind it.
Processed(state) ==
    {hx_method.blocks[state.block_start][k] : k \in 1..state.instruction_index}

\* C25: the exploration of a handler starts in the block at handler_pc with
\* the caught exception, and nothing else, on the operand stack; it enters
\* only blocks that start at handler_pc or behind it; and on no path does it
\* go on behind an athrow or a return.
C25_ExplorationStaysInHandler ==
    /\ hx_last.turn = "seed" =>
        /\ Len(hx_queue) = 1
        /\ hx_queue[1].state.block_start = hx_handler_pc[1]
        /\ hx_queue[1].state.instruction_index = 0
        /\ hx_queue[1].state.machine = Machine(<<Caught>>, <<>>)
        /\ hx_queue[1].state.preserved_allocations = {}
    /\ \A state \in HeldStates :
        /\ state.block_start >= hx_handler_pc[1]
        /\ \A instruction \in Processed(state) :
            instruction.opcode # "ATHROW" /\ ~is_return_opcode(instruction.opcode)

\* The handler that branches back to its try body has been explored: the
\* block at 0 was not entered, the throw behind the branch was found.
C25_Witness ==
    /\ hx_method = RetriesOrThrows
    /\ HxDone
    /\ {state.block_start : state \in hx_visited} = {15, 18}
    /\ hx_results = <<<<10, 25>>>>

\* Every identity of every queued state stands for one `new` instruction.
OneSitePerIdentity ==
    \A k \in 1..Len(hx_queue) :
        \A id \in DOMAIN hx_queue[k].origins : Cardinality(hx_queue[k].origins[id]) <= 1

\* C26: during the exploration of one handler two values of a state carry
\* the same New identity only if they come from the same `new` instruction:
\* the offset a fresh allocation is named by is never a canonical identity
\* that is live in the state already.
C26_FreshIdentityIsFresh == OneSitePerIdentity

NewOffsets ==
    {instruction.offset :
        instruction \in {i \in UNION {Range(hx_method.blocks[b]) : b \in DOMAIN hx_method.blocks} :
                            i.opcode = "NEW"}}

\* What does hold: the identities stand for one `new` instruction each in a
\* method whose `new` instructions all lie behind the canonical identities.
C26_FreshBehindCanonicalIdentities ==
    (\A offset \in NewOffsets : offset >= MAX_TRACKED_ALLOCATIONS) => OneSitePerIdentity

(***************************************************************************)
(* What a handler does to the objects themselves: every `new` of a path    *)
(* makes an object of its own, named by its place on the path, and an      *)
(* object is linked once it has received the caught exception.             *)
(***************************************************************************)
MaxPathBlocks == 4

TheCaught == [kind |-> "Caught", object |-> 0]
SomeOther == [kind |-> "Other", object |-> 0]
Object(place) == [kind |-> "Object", object |-> place]

Top(stack) == IF stack = <<>> THEN SomeOther ELSE stack[Len(stack)]

Drop(stack, n) == SubSeq(stack, 1, IF Len(stack) > n THEN Len(stack) - n ELSE 0)

\* The finding of the path that runs through the instructions from place i
\* on: the offset of its athrow if that throws an unlinked object, None
\* if it throws anything else, returns, or runs out.
RECURSIVE PathFinding(_, _, _, _, _)
PathFinding(path, i, stack, locals, linked) ==
    IF i > Len(path) THEN None
    ELSE
    LET instruction == path[i]
        opcode == instruction.opcode
        slot == local_index(instruction.operand, decode(opcode))
        Go(next_stack, next_locals, next_linked) ==
            PathFinding(path, i + 1, next_stack, next_locals, next_linked)
    IN  CASE opcode = "ATHROW" ->
                IF Top(stack).kind = "Object" /\ Top(stack).object \notin linked
                THEN Some(instruction.offset) ELSE None
          [] is_return_opcode(opcode) -> None
          [] opcode = "NEW" -> Go(Append(stack, Object(i)), locals, linked)
          [] opcode = "DUP" -> Go(Append(stack, Top(stack)), locals, linked)
          [] opcode \in {"POP", "IFNULL"} -> Go(Drop(stack, 1), locals, linked)
          [] decode(opcode).kind = "StoreLocal" ->
                Go(Drop(stack, 1),
                   [n \in DOMAIN locals \cup {slot} |-> IF n = slot THEN Top(stack) ELSE locals[n]],
                   linked)
          [] decode(opcode).kind = "LoadLocal" ->
                Go(Append(stack, IF slot \in DOMAIN locals THEN locals[slot] ELSE SomeOther),
                   locals, linked)
          [] instruction.call # None ->
                LET call == instruction.call[1]
                    args == {stack[k] : k \in (Len(stack) - call.param_count + 1)..Len(stack)}
                    receiver == Top(Drop(stack, call.param_count))
                    rest == Drop(stack, call.param_count + 1)
                    links == /\ call.name \in {"<init>", "initCause", "addSuppressed"}
                             /\ TheCaught \in args
                             /\ receiver.kind = "Object"
                IN  Go(CASE call.name = "<init>" -> rest
                         [] call.name = "initCause" -> Append(rest, receiver)
                         [] call.returns = "Void" -> rest
                         [] OTHER -> Append(rest, SomeOther),
                       locals,
                       IF links THEN linked \cup {receiver.object} ELSE linked)
          [] OTHER -> Go(stack, locals, linked)

\* The paths from the handler: the blocks from the one at handler_pc on,
\* each a successor of the one before and not before handler_pc.
HandlerPaths(handler_pc) ==
    {blocks \in SeqsUpTo(DOMAIN hx_method.blocks, MaxPathBlocks) :
        /\ blocks # <<>> /\ blocks[1] = handler_pc
        /\ \A k \in 1..(Len(blocks) - 1) :
            /\ <<blocks[k], blocks[k + 1]>> \in hx_method.edges
            /\ blocks[k + 1] >= handler_pc}

\* The offsets of the throws, on the paths from the handler, of an object
\* allocated on the path that has not received the caught exception.
UnlinkedThrows(handler_pc) ==
    LET findings ==
            {PathFinding(Flatten([k \in 1..Len(blocks) |-> hx_method.blocks[blocks[k]]]),
                         1, <<TheCaught>>, <<>>, {}) : blocks \in HandlerPaths(handler_pc)}
    IN  {finding[1] : finding \in findings \ {None}}

\* One result for each handler and each such throw, in their order.
ExpectedResults ==
    LET handlers == handler_offsets(hx_method)
    IN  Flatten([h \in 1..Len(handlers) |->
            LET throws == AscendingIds(UnlinkedThrows(handlers[h]))
            IN  [k \in 1..Len(throws) |-> <<handlers[h], throws[k]>>]])

\* C24: on a path from a catch handler an athrow yields a finding exactly if
\* it throws an object allocated by a `new` on that path that has not
\* received the caught exception as an argument of its constructor, of
\* initCause or of addSuppressed; a throw of the caught exception or of any
\* other value yields none; and each handler and throw offset is reported
\* at most once.
C24_FindingIffUnlinkedNew == HxDone => hx_results = ExpectedResults

\* What does hold: the same for the handlers with no more `new`
\* instructions than allocations are tracked, all behind the canonical
\* identities.
C24_FindingIffUnlinkedNewWithinCap ==
    /\ Cardinality(NewOffsets) <= MAX_TRACKED_ALLOCATIONS
    /\ \A offset \in NewOffsets : offset >= MAX_TRACKED_ALLOCATIONS
    => C24_FindingIffUnlinkedNew

\* Every result is reported once.
C24_ReportedOnce ==
    \A i, j \in 1..Len(hx_results) : hx_results[i] = hx_results[j] => i = j
=============================================================================
